---- MODULE Spec2Model ----
(***************************************************************************)
(* Reactivity analysis and hydration codegen of zearo (src/main.ts):       *)
(* analyzeRender classifies the interpolations of a render method,         *)
(* createHtmlFactory's html function assembles the markup, stamps          *)
(* data-zid identifiers and records bindings, handlers and async           *)
(* bindings, and generateScript turns those records into the client        *)
(* script.  Markup is a sequence of lexical tokens; the browser running    *)
(* the generated scripts is modelled after the render has returned.        *)
(***************************************************************************)
EXTENDS Integers, Sequences, FiniteSets, TLC

\* ------------------------------------------------------------------ bounds
\* number of client events (handler firings) explored after hydration
MaxEvents == 2
\* largest initial value given to a numeric field of the page component
MaxInit == 1

\* ------------------------------------------------------------- sequences
RECURSIVE Concat(_)
Concat(ss) == IF ss = <<>> THEN <<>> ELSE Head(ss) \o Concat(Tail(ss))

RECURSIVE SeqToSet(_)
SeqToSet(s) == IF s = <<>> THEN {} ELSE {Head(s)} \cup SeqToSet(Tail(s))

\* insertion-ordered set, as a JavaScript Set or Map keeps its keys
RECURSIVE Dedup(_)
Dedup(s) ==
  IF s = <<>> THEN <<>>
  ELSE LET r == Dedup(SubSeq(s, 1, Len(s) - 1))
           x == s[Len(s)]
       IN  IF x \in SeqToSet(r) THEN r ELSE Append(r, x)

RemoveAt(s, from, to) == SubSeq(s, 1, from - 1) \o SubSeq(s, to + 1, Len(s))
ReplaceAt(s, p, x) == [s EXCEPT ![p] = x]
InsertBefore(s, p, xs) == SubSeq(s, 1, p - 1) \o xs \o SubSeq(s, p, Len(s))

\* ---------------------------------------------------------------- values
\* A JavaScript value: t is its type, v a number (a number's value, a
\* boolean as 0/1, a string's or an instance's index), h the content of a
\* SafeHtml, items the elements of an array.
Prim(t, v) == [t |-> t, v |-> v, h |-> <<>>, items |-> <<>>]
Num(n) == Prim("num", n)
Bool(b) == Prim("bool", IF b THEN 1 ELSE 0)
Str(n) == Prim("str", n)
Null == Prim("null", 0)
Undefined == Prim("undef", 0)
Fn == Prim("fn", 0)
Promise == Prim("promise", 0)
Arr(items) == [t |-> "arr", v |-> 0, h |-> <<>>, items |-> items]
Inst(i) == Prim("inst", i)

\* src/main.ts:303-311
safeHtml(content) == [t |-> "safe", v |-> 0, h |-> content, items |-> <<>>]
\* src/main.ts:313-315
isSafeHtml(value) == value.t = "safe"
\* src/main.ts:183-190: an object with a render function
isRenderable(value) == value.t = "inst"
\* value === false || value === null || value === undefined
IsFalsySentinel(value) ==
  \/ value.t = "bool" /\ value.v = 0
  \/ value.t \in {"null", "undef"}
\* JavaScript truthiness of the values the model uses
Truthy(value) ==
  ~ \/ IsFalsySentinel(value)
    \/ value.t = "num" /\ value.v = 0

\* ---------------------------------------------------------------- tokens
\* The markup text, cut into lexical tokens.  k is the kind, s a name, n a
\* number; e and i say which interpolation of which instance produced an
\* inlined value (e = <<>> for text of the template itself).
Tok(k, s, n) == [k |-> k, s |-> s, n |-> n, e |-> <<>>, i |-> 0]
Lt(tag) == Tok("lt", tag, 0)          \* <tag
Gt == Tok("gt", "", 0)                \* >
Etag(tag) == Tok("etag", tag, 0)      \* </tag>
Ws == Tok("ws", "", 0)                \* white space
W(s) == Tok("w", s, 0)                \* a run of word characters, \w+
Hw(s) == Tok("hw", s, 0)              \* words joined by hyphens: aria-hidden
Eq == Tok("eq", "", 0)                \* =
Q == Tok("q", "", 0)                  \* "
Ph(n) == Tok("ph", "", n)             \* __PLACEHOLDER_n__
Zid(n) == Tok("zid", "", n)           \* data-zid="_n"
Scr(n) == Tok("scr", "", n)           \* the n-th generated <script> block
\* String(value), HTML-escaped, from interpolation e of instance i
Val(value, e, i) == [k |-> "val", s |-> value.t, n |-> value.v, e |-> e, i |-> i]

\* src/main.ts:317
ATTR == "data-zid"

\* ------------------------------------------------ render-method sources
\* An interpolated expression of a render method, as the AST babel gives
\* analyzeRender.  kind:
\*   lit    a literal                         ${"container"}, ${false}
\*   arg    a variable that is no field       ${i}, ${req.url}
\*   field  this.f                            ${this.count}
\*   sum    this.f + this.g
\*   tern   this.f ? "on" : "off"
\*   arrow  an arrow function, body a list of statements
\*   call   this.f() with the method chain `chain` applied to it
\*   new    new cls({ initial: n })
\*   news   [new cls({ initial: n }), new cls({ initial: n + 1 })]
\*   tpl    html`...`, the class's template tpl
\*   and    this.f && html`...`
\*   map    this.f.map((i) => html`...`)
\*   len    this.f.length
\*   method this.f(this.g), f a method of the class: f(n) { return n + 1; }
E0 ==
  [kind |-> "lit", f |-> "", g |-> "", body |-> <<>>, tpl |-> 0, cls |-> "",
   n |-> 0, chain |-> <<>>, lit |-> Undefined]
Lit(v) == [E0 EXCEPT !.lit = v]
Arg == [E0 EXCEPT !.kind = "arg"]
Field(f) == [E0 EXCEPT !.kind = "field", !.f = f]
Sum(f, g) == [E0 EXCEPT !.kind = "sum", !.f = f, !.g = g]
Tern(f) == [E0 EXCEPT !.kind = "tern", !.f = f]
Arrow(body) == [E0 EXCEPT !.kind = "arrow", !.body = body]
Call(f, chain) == [E0 EXCEPT !.kind = "call", !.f = f, !.chain = chain]
New(cls, n) == [E0 EXCEPT !.kind = "new", !.cls = cls, !.n = n]
News(cls, n) == [E0 EXCEPT !.kind = "news", !.cls = cls, !.n = n]
Tpl(t) == [E0 EXCEPT !.kind = "tpl", !.tpl = t]
And(f, t) == [E0 EXCEPT !.kind = "and", !.f = f, !.tpl = t]
Map(f, t) == [E0 EXCEPT !.kind = "map", !.f = f, !.tpl = t]
Length(f) == [E0 EXCEPT !.kind = "len", !.f = f]
Method(f, g) == [E0 EXCEPT !.kind = "method", !.f = f, !.g = g]

\* statements of a handler body
Inc(f) == [op |-> "inc", f |-> f, g |-> ""]          \* this.f++
Dec(f) == [op |-> "dec", f |-> f, g |-> ""]          \* this.f--
AddF(f, g) == [op |-> "addf", f |-> f, g |-> g]      \* this.f += this.g
Toggle(f) == [op |-> "toggle", f |-> f, g |-> ""]    \* this.f = !this.f
SetTrue(f) == [op |-> "settrue", f |-> f, g |-> ""]  \* this.f = true

\* a method call of a chain: .then(cb) / .catch(cb), cb the callback's source
Then(cb) == [name |-> "then", cb |-> cb]
Catch(cb) == [name |-> "catch", cb |-> cb]

Template(strings, exprs) == [strings |-> strings, exprs |-> exprs]
Class(fields, prop, templates) ==
  [fields |-> fields, prop |-> prop, templates |-> templates]

\* functions that are global, on the server and in the browser: a call
\* f() of one of them, where Call(f, chain) is this.f() for any other name
GlobalFns == {"fetchX"}

\* on<word> attribute names: the words /on\w+/ matches
OnWords == {"onclick", "onmouseenter"}

\* The component classes rendered: the classes of src/main.ts and of the
\* tests of src/main_test.ts, and the shapes the specification names.
\* templates[1] is the template render returns; a nested template follows
\* the template that contains it.
Classes ==
  [ \* html`<div>just static</div>`                      main_test.ts:390
    Static |-> Class([none |-> Null], "", <<
      Template(<< <<Lt("div"), Gt, W("just"), Ws, W("static"), Etag("div")>> >>,
               <<>>) >>),
    \* html`<span>${this.count}</span>`                    main_test.ts:260
    Label |-> Class([count |-> Num(0)], "count", <<
      Template(<< <<Lt("span"), Gt>>, <<Etag("span")>> >>,
               << Field("count") >>) >>),
    \* html`<button onclick=${() => this.count++}>${this.count}</button>`
    \*                                                     main.ts:654-664
    Counter |-> Class([count |-> Num(0)], "count", <<
      Template(<< <<Lt("button"), Ws, W("onclick"), Eq>>, <<Gt>>,
                  <<Etag("button")>> >>,
               << Arrow(<<Inc("count")>>), Field("count") >>) >>),
    \* html`<p>Count: ${this.count}</p><button onclick=${() => this.count++}>+</button>`
    Labeled |-> Class([count |-> Num(0)], "count", <<
      Template(<< <<Lt("p"), Gt, W("Count"), Ws>>,
                  <<Etag("p"), Lt("button"), Ws, W("onclick"), Eq>>,
                  <<Gt, W("plus"), Etag("button")>> >>,
               << Field("count"), Arrow(<<Inc("count")>>) >>) >>),
    \* html`<p>${this.a}${this.b}</p><button onclick=${() => { this.a++; this.b-- }}>go</button>`
    Pair |-> Class([a |-> Num(0), b |-> Num(1)], "a", <<
      Template(<< <<Lt("p"), Gt>>, <<>>,
                  <<Etag("p"), Lt("button"), Ws, W("onclick"), Eq>>,
                  <<Gt, W("go"), Etag("button")>> >>,
               << Field("a"), Field("b"),
                  Arrow(<<Inc("a"), Dec("b")>>) >>) >>),
    \* html`<button onclick=${() => this.active = !this.active}
    \*        class=${this.active ? "on" : "off"}>toggle</button>`
    \*                                                     main_test.ts:731
    Switch |-> Class([active |-> Bool(TRUE)], "active", <<
      Template(<< <<Lt("button"), Ws, W("onclick"), Eq>>,
                  <<Ws, W("class"), Eq>>,
                  <<Gt, W("toggle"), Etag("button")>> >>,
               << Arrow(<<Toggle("active")>>), Tern("active") >>) >>),
    \* html`<p class=${this.active ? "on" : "off"}>x</p>
    \*      <button onclick=${() => this.active = !this.active}>toggle</button>`
    Styled |-> Class([active |-> Bool(FALSE)], "active", <<
      Template(<< <<Lt("p"), Ws, W("class"), Eq>>,
                  <<Gt, W("x"), Etag("p"), Lt("button"), Ws, W("onclick"), Eq>>,
                  <<Gt, W("toggle"), Etag("button")>> >>,
               << Tern("active"), Arrow(<<Toggle("active")>>) >>) >>),
    \* html`<button onclick=${() => this.count += this.step}>${this.count}</button>`
    Stepper |-> Class([count |-> Num(0), step |-> Num(2)], "count", <<
      Template(<< <<Lt("button"), Ws, W("onclick"), Eq>>, <<Gt>>,
                  <<Etag("button")>> >>,
               << Arrow(<<AddF("count", "step")>>), Field("count") >>) >>),
    \* html`<button onclick=${() => this.count++}
    \*        onmouseenter=${() => this.hovered = true}>hover me</button>`
    \*                                                     main_test.ts:813
    Interactive |-> Class([count |-> Num(0), hovered |-> Bool(FALSE)], "count", <<
      Template(<< <<Lt("button"), Ws, W("onclick"), Eq>>,
                  <<Ws, W("onmouseenter"), Eq>>,
                  <<Gt, W("hover"), Etag("button")>> >>,
               << Arrow(<<Inc("count")>>), Arrow(<<SetTrue("hovered")>>) >>) >>),
    \* html`<div>${this.getData().then(cb)}</div>`          main_test.ts:962
    Async |-> Class([none |-> Null], "", <<
      Template(<< <<Lt("div"), Gt>>, <<Etag("div")>> >>,
               << Call("getData", <<Then("cb")>>) >>) >>),
    \* html`<div>${this.getData().then(cb).catch(errCb)}</div>`
    \*                                                     main_test.ts:987
    AsyncCatch |-> Class([none |-> Null], "", <<
      Template(<< <<Lt("div"), Gt>>, <<Etag("div")>> >>,
               << Call("getData", <<Then("cb"), Catch("errCb")>>) >>) >>),
    \* html`<div>${fetchX().then(cb)}</div>`
    Remote |-> Class([none |-> Null], "", <<
      Template(<< <<Lt("div"), Gt>>, <<Etag("div")>> >>,
               << Call("fetchX", <<Then("cb")>>) >>) >>),
    \* html`<div>${fetchX().then(cb).catch(errCb)}</div>`
    RemoteCatch |-> Class([none |-> Null], "", <<
      Template(<< <<Lt("div"), Gt>>, <<Etag("div")>> >>,
               << Call("fetchX", <<Then("cb"), Catch("errCb")>>) >>) >>),
    \* html`<input disabled=${false} hidden=${null} required=${undefined}>`
    \*                                                     main_test.ts:765
    Input |-> Class([none |-> Null], "", <<
      Template(<< <<Lt("input"), Ws, W("disabled"), Eq>>,
                  <<Ws, W("hidden"), Eq>>, <<Ws, W("required"), Eq>>,
                  <<Gt>> >>,
               << Lit(Bool(FALSE)), Lit(Null), Lit(Undefined) >>) >>),
    \* html`<div aria-hidden=${false}>x</div>`
    Aria |-> Class([none |-> Null], "", <<
      Template(<< <<Lt("div"), Ws, Hw("aria-hidden"), Eq>>,
                  <<Gt, W("x"), Etag("div")>> >>,
               << Lit(Bool(FALSE)) >>) >>),
    \* html`<button disabled=${this.busy} onclick=${() => this.busy = true}>go</button>`
    Busy |-> Class([busy |-> Bool(FALSE)], "busy", <<
      Template(<< <<Lt("button"), Ws, W("disabled"), Eq>>,
                  <<Ws, W("onclick"), Eq>>,
                  <<Gt, W("go"), Etag("button")>> >>,
               << Field("busy"), Arrow(<<SetTrue("busy")>>) >>) >>),
    \* html`<ul>${this.items.map((i) => html`<li>${i}</li>`)}</ul>`
    \*                                                     main_test.ts:514
    List |-> Class([items |-> Arr(<<Str(1), Str(2)>>)], "", <<
      Template(<< <<Lt("ul"), Gt>>, <<Etag("ul")>> >>,
               << Map("items", 2) >>),
      Template(<< <<Lt("li"), Gt>>, <<Etag("li")>> >>,
               << Arg >>) >>),
    \* html`<div><button onclick=${() => this.visible = !this.visible}>Toggle</button>
    \*        ${this.visible && html`<span>Content</span>`}</div>`
    \*                                                     main_test.ts:647
    ToggleTpl |-> Class([visible |-> Bool(TRUE)], "visible", <<
      Template(<< <<Lt("div"), Gt, Lt("button"), Ws, W("onclick"), Eq>>,
                  <<Gt, W("Toggle"), Etag("button")>>,
                  <<Etag("div")>> >>,
               << Arrow(<<Toggle("visible")>>), And("visible", 2) >>),
      Template(<< <<Lt("span"), Gt, W("Content"), Etag("span")>> >>,
               <<>>) >>),
    \* html`<div>${this.show && html`<span>visible</span>`}</div>`
    \*                                                     main_test.ts:532
    Conditional |-> Class([show |-> Bool(TRUE)], "show", <<
      Template(<< <<Lt("div"), Gt>>, <<Etag("div")>> >>,
               << And("show", 2) >>),
      Template(<< <<Lt("span"), Gt, W("visible"), Etag("span")>> >>,
               <<>>) >>),
    \* html`<div>${html`<button onclick=${() => this.count++}>${this.count}</button>`}</div>`
    Wrapped |-> Class([count |-> Num(0)], "count", <<
      Template(<< <<Lt("div"), Gt>>, <<Etag("div")>> >>,
               << Tpl(2) >>),
      Template(<< <<Lt("button"), Ws, W("onclick"), Eq>>, <<Gt>>,
                  <<Etag("button")>> >>,
               << Arrow(<<Inc("count")>>), Field("count") >>) >>),
    \* html`<div>${html`<p>${this.count}</p>`}${html`<i>static</i>`}
    \*        <button onclick=${() => this.count++}>+</button></div>`
    Sections |-> Class([count |-> Num(0)], "count", <<
      Template(<< <<Lt("div"), Gt>>, <<>>,
                  <<Lt("button"), Ws, W("onclick"), Eq>>,
                  <<Gt, W("plus"), Etag("button"), Etag("div")>> >>,
               << Tpl(2), Tpl(3), Arrow(<<Inc("count")>>) >>),
      Template(<< <<Lt("p"), Gt>>, <<Etag("p")>> >>,
               << Field("count") >>),
      Template(<< <<Lt("i"), Gt, W("static"), Etag("i")>> >>,
               <<>>) >>),
    \* html`<h1>${this.title}</h1>
    \*      <button onclick=${() => this.count++}>${this.count}</button>`
    Titled |-> Class([title |-> Str(1), count |-> Num(0)], "count", <<
      Template(<< <<Lt("h1"), Gt>>,
                  <<Etag("h1"), Lt("button"), Ws, W("onclick"), Eq>>,
                  <<Gt>>, <<Etag("button")>> >>,
               << Field("title"), Arrow(<<Inc("count")>>), Field("count") >>) >>),
    \* html`${this.count}<button onclick=${() => this.count++}>+</button>`
    TopText |-> Class([count |-> Num(0)], "count", <<
      Template(<< <<>>, <<Lt("button"), Ws, W("onclick"), Eq>>,
                  <<Gt, W("plus"), Etag("button")>> >>,
               << Field("count"), Arrow(<<Inc("count")>>) >>) >>),
    \* html`<div class="box ${this.count}" onclick=${() => this.count++}>x</div>`
    Quoted |-> Class([count |-> Num(0)], "count", <<
      Template(<< <<Lt("div"), Ws, W("class"), Eq, Q, W("box"), Ws>>,
                  <<Q, Ws, W("onclick"), Eq>>,
                  <<Gt, W("x"), Etag("div")>> >>,
               << Field("count"), Arrow(<<Inc("count")>>) >>) >>),
    \* html`<body>${new Counter({ initial: 5 })}${new Counter({ initial: 22 })}</body>`
    \*                                                     main.ts:619-635
    Index |-> Class([none |-> Null], "", <<
      Template(<< <<Lt("body"), Gt>>, <<>>, <<Etag("body")>> >>,
               << New("Counter", 0), New("Counter", 1) >>) >>),
    \* html`<section onclick=${() => this.n++}>${this.n}${new Middle()}</section>`
    \*                                                     main_test.ts:313
    Outer |-> Class([n |-> Num(0)], "n", <<
      Template(<< <<Lt("section"), Ws, W("onclick"), Eq>>, <<Gt>>, <<>>,
                  <<Etag("section")>> >>,
               << Arrow(<<Inc("n")>>), Field("n"), New("Middle", 0) >>) >>),
    \* html`<div>${this.getData().then(cb)}${new Counter({ initial: 1 })}</div>`
    Middle |-> Class([none |-> Null], "", <<
      Template(<< <<Lt("div"), Gt>>, <<>>, <<Etag("div")>> >>,
               << Call("getData", <<Then("cb")>>), New("Counter", 1) >>) >>),
    \* html`<ul>${[new Counter({ initial: 0 }), new Counter({ initial: 1 })]}</ul>`
    Items |-> Class([none |-> Null], "", <<
      Template(<< <<Lt("ul"), Gt>>, <<Etag("ul")>> >>,
               << News("Counter", 0) >>) >>),
    \* html`<span>${this.items.length}</span>`              main_test.ts:201
    Size |-> Class([items |-> Arr(<<Str(1), Str(2)>>)], "", <<
      Template(<< <<Lt("span"), Gt>>, <<Etag("span")>> >>,
               << Length("items") >>) >>),
    \* html`<button onclick=${() => this.count++}>${this.next(this.count)}</button>`
    \* with the method next(n) { return n + 1; }: instance.next is a function
    Formatted |-> Class([count |-> Num(0), next |-> Fn], "count", <<
      Template(<< <<Lt("button"), Ws, W("onclick"), Eq>>, <<Gt>>,
                  <<Etag("button")>> >>,
               << Arrow(<<Inc("count")>>), Method("next", "count") >>) >>),
    \* html`<button onclick=${() => this.done = true}>go</button>` with the
    \* field declared without a value: done?: boolean
    Flag |-> Class([done |-> Undefined], "", <<
      Template(<< <<Lt("button"), Ws, W("onclick"), Eq>>,
                  <<Gt, W("go"), Etag("button")>> >>,
               << Arrow(<<SetTrue("done")>>) >>) >>)
  ]

\* the page components a request can name (app.pages, src/main.ts:667-671)
Pages ==
  {"Static", "Label", "Counter", "Labeled", "Pair", "Switch", "Styled", "Stepper",
   "Interactive", "Async", "AsyncCatch", "Remote", "RemoteCatch", "Input", "Aria", "Busy", "List",
   "ToggleTpl", "Conditional", "Wrapped", "Sections", "Titled", "TopText", "Quoted", "Index", "Outer", "Items",
   "Size", "Formatted", "Flag"}

\* ------------------------------------------------------ Expression Analyzer
\* A member access rooted at `this`: the property's name, the type of the
\* parent node, and whether the access is the parent's left operand.
Acc(name, parent, left) == [name |-> name, parent |-> parent, left |-> left]

\* only the member a statement assigns to
StmtAccessesTarget(st) == <<Acc(st.f, "AssignmentExpression", TRUE)>>

StmtAccesses(st) ==
  CASE st.op \in {"inc", "dec"} -> <<Acc(st.f, "UpdateExpression", FALSE)>>
    [] st.op = "addf" -> <<Acc(st.f, "AssignmentExpression", TRUE),
                           Acc(st.g, "AssignmentExpression", FALSE)>>
    [] st.op = "toggle" -> <<Acc(st.f, "AssignmentExpression", TRUE),
                             Acc(st.f, "UnaryExpression", FALSE)>>
    [] st.op = "settrue" -> <<Acc(st.f, "AssignmentExpression", TRUE)>>

\* The this-rooted member accesses babel's traversal meets inside expr, in
\* source order: those of a template nested in expr lie within expr's source
\* range (isDescendant, src/main.ts:201-205).
RECURSIVE Accesses(_, _), TemplateAccesses(_, _)
Accesses(cls, expr) ==
  CASE expr.kind = "field" -> <<Acc(expr.f, "TemplateLiteral", FALSE)>>
    [] expr.kind = "sum" -> <<Acc(expr.f, "BinaryExpression", TRUE),
                              Acc(expr.g, "BinaryExpression", FALSE)>>
    [] expr.kind = "tern" -> <<Acc(expr.f, "ConditionalExpression", FALSE)>>
    [] expr.kind = "arrow" ->
         Concat([k \in 1..Len(expr.body) |-> StmtAccesses(expr.body[k])])
    [] expr.kind = "call" ->
         IF expr.f \in GlobalFns THEN <<>>
         ELSE <<Acc(expr.f, "CallExpression", FALSE)>>
    [] expr.kind = "and" ->
         <<Acc(expr.f, "LogicalExpression", TRUE)>>
           \o TemplateAccesses(cls, expr.tpl)
    [] expr.kind = "map" ->
         <<Acc(expr.f, "MemberExpression", FALSE)>>
           \o TemplateAccesses(cls, expr.tpl)
    [] expr.kind = "tpl" -> TemplateAccesses(cls, expr.tpl)
    [] expr.kind = "len" -> <<Acc(expr.f, "MemberExpression", FALSE)>>
    [] expr.kind = "method" -> <<Acc(expr.f, "CallExpression", FALSE),
                                 Acc(expr.g, "CallExpression", FALSE)>>
    [] OTHER -> <<>>
TemplateAccesses(cls, t) ==
  LET exprs == Classes[cls].templates[t].exprs
  IN  Concat([k \in 1..Len(exprs) |-> Accesses(cls, exprs[k])])

\* src/main.ts:65-103.  A callback's source is "" when it is null; the
\* promise source is the receiver the .then is applied to.
NoPromise == [f |-> "", chain |-> <<>>]
analyzeAsyncExpression(expr) ==
  LET c0 == expr.chain
      isCatch == Len(c0) > 0 /\ c0[Len(c0)].name = "catch"
      c1 == IF isCatch THEN SubSeq(c0, 1, Len(c0) - 1) ELSE c0
      isThen == Len(c1) > 0 /\ c1[Len(c1)].name = "then"
      thenCallback == IF isThen THEN c1[Len(c1)].cb ELSE ""
  IN  [isAsync |-> thenCallback # "",
       promiseSource |->
         IF isThen THEN [f |-> expr.f, chain |-> SubSeq(c1, 1, Len(c1) - 1)]
         ELSE NoPromise,
       thenCallback |-> thenCallback,
       catchCallback |-> IF isCatch THEN c0[Len(c0)].cb ELSE ""]

\* before.match(/\s(on\w+)=\s*$/), src/main.ts:160-161: the matched
\* attribute name, "" when there is no match
RECURSIVE StripWs(_)
StripWs(s) ==
  IF s # <<>> /\ s[Len(s)].k = "ws" THEN StripWs(SubSeq(s, 1, Len(s) - 1))
  ELSE s
EventMatch(before) ==
  LET s == StripWs(before)
      n == Len(s)
  IN  IF /\ n >= 3
         /\ s[n].k = "eq"
         /\ s[n - 1].k = "w" /\ s[n - 1].s \in OnWords
         /\ s[n - 2].k = "ws"
      THEN s[n - 1].s ELSE ""

\* only an update expression (++, --) counted as a write
IsWriteUpdateOnly(a) == a.parent = "UpdateExpression"

\* the writes of one expression: src/main.ts:146-151
IsWrite(a) ==
  \/ a.parent = "UpdateExpression"
  \/ a.parent = "AssignmentExpression" /\ a.left
WritesOf(accs) ==
  LET idx == {k \in 1..Len(accs) : IsWrite(accs[k])}
      RECURSIVE Pick(_)
      Pick(k) == IF k > Len(accs) THEN <<>>
                 ELSE (IF k \in idx THEN <<accs[k].name>> ELSE <<>>) \o Pick(k + 1)
  IN  Pick(1)

\* the member accesses of an async expression collected like any other's
ClassifyWalkingAsync(cls, t, i) ==
  LET tp == Classes[cls].templates[t]
      expr == tp.exprs[i]
      isFunction == expr.kind = "arrow"
      asyncInfo == analyzeAsyncExpression(expr)
      accs == Accesses(cls, expr)
      eventMatch == EventMatch(tp.strings[i])
  IN  [signals |-> [k \in 1..Len(accs) |-> accs[k].name],
       writes |-> WritesOf(accs),
       isFunction |-> isFunction,
       isEvent |-> isFunction /\ eventMatch # "",
       eventName |-> eventMatch,
       source |-> [cls |-> cls, tpl |-> t, slot |-> i],
       bodySource |-> IF isFunction THEN expr.body ELSE <<>>,
       isAsync |-> asyncInfo.isAsync,
       promiseSource |-> asyncInfo.promiseSource,
       thenCallback |-> asyncInfo.thenCallback,
       catchCallback |-> asyncInfo.catchCallback]

\* the ExprAnalysis of interpolation i of template t: src/main.ts:123-176
Classify(cls, t, i) ==
  LET tp == Classes[cls].templates[t]
      expr == tp.exprs[i]
      isFunction == expr.kind = "arrow"
      asyncInfo == analyzeAsyncExpression(expr)
      accs == IF asyncInfo.isAsync THEN <<>> ELSE Accesses(cls, expr)
      eventMatch == EventMatch(tp.strings[i])
  IN  [signals |-> [k \in 1..Len(accs) |-> accs[k].name],
       writes |-> WritesOf(accs),
       isFunction |-> isFunction,
       isEvent |-> isFunction /\ eventMatch # "",
       eventName |-> eventMatch,
       source |-> [cls |-> cls, tpl |-> t, slot |-> i],
       bodySource |-> IF isFunction THEN expr.body ELSE <<>>,
       isAsync |-> asyncInfo.isAsync,
       promiseSource |-> asyncInfo.promiseSource,
       thenCallback |-> asyncInfo.thenCallback,
       catchCallback |-> asyncInfo.catchCallback]

\* the results in the order of the interpolations' positions in the
\* source: those of a nested template follow the interpolation it is in
RECURSIVE AnalyzeTemplateByPosition(_, _)
AnalyzeTemplateByPosition(cls, t) ==
  LET exprs == Classes[cls].templates[t].exprs
  IN  Concat([i \in 1..Len(exprs) |->
                <<Classify(cls, t, i)>>
                  \o (IF exprs[i].tpl # 0
                      THEN AnalyzeTemplateByPosition(cls, exprs[i].tpl)
                      ELSE <<>>)])

\* babel's traversal enters a tagged template, where the visitor pushes one
\* result per interpolation, and then descends into the interpolations: the
\* results of a nested template follow all those of the enclosing one.
RECURSIVE AnalyzeTemplate(_, _)
AnalyzeTemplate(cls, t) ==
  LET exprs == Classes[cls].templates[t].exprs
  IN  [i \in 1..Len(exprs) |-> Classify(cls, t, i)]
        \o Concat([i \in 1..Len(exprs) |->
                     IF exprs[i].tpl # 0 THEN AnalyzeTemplate(cls, exprs[i].tpl)
                     ELSE <<>>])

\* src/main.ts:107-181
analyzeRender(cls) == AnalyzeTemplate(cls, 1)

\* --------------------------------------------------- the markup as a tree
\* What linkedom's parser makes of the token sequence doc (root.innerHTML =
\* templateHtml, src/main.ts:430-431): an element is an `lt` token, named
\* by its ordinal among the elements in document order (0 is the root div,
\* which innerHTML does not serialize); its attributes lie between the `lt`
\* and the next `gt`; a text node is a maximal run of tokens outside tags.
VoidTags == {"input"}
WordKinds == {"w", "hw", "ph", "val"}

\* the `lt` whose tag holds position p, 0 when p is outside every tag
TagStart(doc, p) ==
  LET c == {q \in 1..p : doc[q].k = "lt" /\ \A r \in q..(p - 1) : doc[r].k # "gt"}
  IN  IF c = {} THEN 0 ELSE CHOOSE q \in c : \A r \in c : r <= q
TagEnd(doc, p) ==
  LET c == {g \in p..Len(doc) : doc[g].k = "gt"}
  IN  IF c = {} THEN Len(doc) ELSE CHOOSE g \in c : \A r \in c : g <= r
InTag(doc, p) == doc[p].k \in {"etag", "scr"} \/ TagStart(doc, p) # 0

\* root.querySelectorAll("*"): the positions of the elements, in document order
RECURSIVE ElemFrom(_, _)
ElemFrom(doc, p) ==
  IF p > Len(doc) THEN <<>>
  ELSE (IF doc[p].k = "lt" THEN <<p>> ELSE <<>>) \o ElemFrom(doc, p + 1)
allElements(doc) == ElemFrom(doc, 1)
ElemPos(doc, o) == allElements(doc)[o]
OrdOf(doc, p) == Cardinality({q \in 1..p : doc[q].k = "lt"})

\* el.attributes: name, value and token span of each attribute of the tag
\* that starts at p, scanning from position q
RECURSIVE AttrsFrom(_, _, _)
AttrsFrom(doc, q, g) ==
  IF q >= g THEN <<>>
  ELSE IF doc[q].k = "zid" THEN
    <<[name |-> ATTR, hy |-> TRUE, val |-> <<doc[q]>>, from |-> q, to |-> q]>>
      \o AttrsFrom(doc, q + 1, g)
  ELSE IF doc[q].k \in {"w", "hw"} THEN
    IF q + 1 < g /\ doc[q + 1].k = "eq" THEN
      IF q + 2 < g /\ doc[q + 2].k = "q" THEN
        LET c == {r \in (q + 3)..(g - 1) : doc[r].k = "q"}
            r == IF c = {} THEN g - 1 ELSE CHOOSE x \in c : \A y \in c : x <= y
        IN  <<[name |-> doc[q].s, hy |-> doc[q].k = "hw",
               val |-> SubSeq(doc, q + 3, r - 1), from |-> q, to |-> r]>>
              \o AttrsFrom(doc, r + 1, g)
      ELSE IF q + 2 < g /\ doc[q + 2].k \in WordKinds THEN
        <<[name |-> doc[q].s, hy |-> doc[q].k = "hw",
           val |-> <<doc[q + 2]>>, from |-> q, to |-> q + 2]>>
          \o AttrsFrom(doc, q + 3, g)
      ELSE
        <<[name |-> doc[q].s, hy |-> doc[q].k = "hw",
           val |-> <<>>, from |-> q, to |-> q + 1]>>
          \o AttrsFrom(doc, q + 2, g)
    ELSE
      <<[name |-> doc[q].s, hy |-> doc[q].k = "hw",
         val |-> <<>>, from |-> q, to |-> q]>>
        \o AttrsFrom(doc, q + 1, g)
  ELSE AttrsFrom(doc, q + 1, g)
attributes(doc, p) == AttrsFrom(doc, p + 1, TagEnd(doc, p))
AttrNamed(doc, p, name) ==
  LET as == attributes(doc, p)
      c == {k \in 1..Len(as) : as[k].name = name}
  IN  IF c = {} THEN <<>> ELSE <<as[CHOOSE k \in c : \A j \in c : k <= j]>>

\* el.removeAttribute(name): the attribute goes with the space before it
removeAttribute(doc, p, name) ==
  LET a == AttrNamed(doc, p, name)
  IN  IF a = <<>> THEN doc
      ELSE LET from == IF doc[a[1].from - 1].k = "ws" THEN a[1].from - 1
                       ELSE a[1].from
           IN  RemoveAt(doc, from, a[1].to)
\* el.setAttribute(name, value) of an attribute the element has
setAttributeValue(doc, p, name, valueTok) ==
  LET a == AttrNamed(doc, p, name)
  IN  IF a = <<>> THEN doc
      ELSE SubSeq(doc, 1, a[1].from) \o <<Eq, Q, valueTok, Q>>
             \o SubSeq(doc, a[1].to + 1, Len(doc))
\* el.setAttribute(ATTR, id): a new attribute, serialized last in the tag
setZid(doc, p, id) == InsertBefore(doc, TagEnd(doc, p), <<Ws, Zid(id)>>)

\* the text nodes the TreeWalker visits: (first, last) token of each
RECURSIVE TextFrom(_, _)
TextFrom(doc, p) ==
  IF p > Len(doc) THEN <<>>
  ELSE IF InTag(doc, p) THEN TextFrom(doc, p + 1)
  ELSE LET c == {q \in p..Len(doc) : InTag(doc, q)}
           e == IF c = {} THEN Len(doc)
                ELSE (CHOOSE q \in c : \A r \in c : q <= r) - 1
       IN  <<[first |-> p, last |-> e]>> \o TextFrom(doc, e + 1)
textNodes(doc) == TextFrom(doc, 1)

\* textNode.parentElement: the position of the innermost element open at p,
\* 0 for the root
RECURSIVE ParentFrom(_, _, _)
ParentFrom(doc, q, depth) ==
  IF q = 0 THEN 0
  ELSE IF doc[q].k = "etag" THEN ParentFrom(doc, q - 1, depth + 1)
  ELSE IF doc[q].k = "lt" /\ doc[q].s \notin VoidTags THEN
    IF depth = 0 THEN q ELSE ParentFrom(doc, q - 1, depth - 1)
  ELSE ParentFrom(doc, q - 1, depth)
parentElement(doc, p) == ParentFrom(doc, p - 1, 0)

\* el.textContent: the text tokens inside the element that starts at p
RECURSIVE CloseFrom(_, _, _)
CloseFrom(doc, q, depth) ==
  IF q > Len(doc) THEN Len(doc) + 1
  ELSE IF doc[q].k = "lt" /\ doc[q].s \notin VoidTags THEN CloseFrom(doc, q + 1, depth + 1)
  ELSE IF doc[q].k = "etag" THEN
    IF depth = 0 THEN q ELSE CloseFrom(doc, q + 1, depth - 1)
  ELSE CloseFrom(doc, q + 1, depth)
ElemClose(doc, p) ==
  IF doc[p].s \in VoidTags THEN TagEnd(doc, p) ELSE CloseFrom(doc, p + 1, 0)
RECURSIVE TextIn(_, _, _)
TextIn(doc, q, e) ==
  IF q > e \/ q > Len(doc) THEN <<>>
  ELSE (IF InTag(doc, q) THEN <<>> ELSE <<doc[q]>>) \o TextIn(doc, q + 1, e)
textContent(doc, p) ==
  IF p = 0 THEN TextIn(doc, 1, Len(doc))
  ELSE TextIn(doc, TagEnd(doc, p) + 1, ElemClose(doc, p) - 1)

\* parsing and serializing again gives an attribute left without a value
\* (name= before > or white space) the empty value: name=""
RECURSIVE Normalize(_, _)
Normalize(doc, p) ==
  IF p > Len(doc) THEN <<>>
  ELSE IF /\ doc[p].k = "eq" /\ TagStart(doc, p) # 0
          /\ p < Len(doc) /\ doc[p + 1].k \in {"gt", "ws"}
       THEN <<Eq, Q, Q>> \o Normalize(doc, p + 1)
  ELSE <<doc[p]>> \o Normalize(doc, p + 1)

\* ------------------------------------------- placeholder resolution passes
\* The state the passes of one html call work on: the parsed markup doc,
\* the factory's elementIds, bindings and handlers, the value of the shared
\* idCounter, the call's writtenSignals, and log, the history of identifier
\* assignments.  inv numbers the html call: each call parses into elements
\* of its own, so an element is the pair <<inv, ordinal>>.
IdOf(elementIds, el) ==
  LET c == {k \in 1..Len(elementIds) : elementIds[k].el = el}
  IN  IF c = {} THEN -1 ELSE elementIds[CHOOSE k \in c : TRUE].id

\* the counter incremented before it is read: `_${++idCounter.value}`
AssignIdPreIncrement(ps, ord, pass) ==
  LET el == <<ps.inv, ord>>
      had == [k \in 1..Len(ps.elementIds) |-> ps.elementIds[k].el]
  IN  IF el \in SeqToSet(had) THEN ps
      ELSE [ps EXCEPT
             !.doc = IF ord = 0 THEN @ ELSE setZid(@, ElemPos(@, ord), ps.ctr + 1),
             !.elementIds = Append(@, [el |-> el, id |-> ps.ctr + 1]),
             !.log = Append(@, [id |-> ps.ctr + 1, fac |-> ps.fac, inv |-> ps.inv,
                                ord |-> ord, pass |-> pass, src |-> <<>>]),
             !.ctr = @ + 1]

\* let id = elementIds.get(el); if (!id) { id = `_${idCounter.value++}`;
\* el.setAttribute(ATTR, id); elementIds.set(el, id); }
\*                                     src/main.ts:440-445, 471-476, 515-520
AssignId(ps, ord, pass) ==
  LET el == <<ps.inv, ord>>
      had == IdOf(ps.elementIds, el)
  IN  IF had # -1 THEN ps
      ELSE [ps EXCEPT
             !.doc = IF ord = 0 THEN @ ELSE setZid(@, ElemPos(@, ord), ps.ctr),
             !.elementIds = Append(@, [el |-> el, id |-> ps.ctr]),
             !.log = Append(@, [id |-> ps.ctr, fac |-> ps.fac, inv |-> ps.inv,
                                ord |-> ord, pass |-> pass,
                                src |-> <<>>]),
             !.ctr = @ + 1]

\* a read counted as reactive whether or not the field is written
isReactiveAlways(expr, writtenSignals) == expr.signals # <<>>
\* expr.signals.some((s) => writtenSignals.has(s)): src/main.ts:358, 466, 509
isReactiveIn(expr, writtenSignals) ==
  \E k \in 1..Len(expr.signals) : expr.signals[k] \in writtenSignals

\* 1. Process event attributes: src/main.ts:433-459
PassAStep(ps, ord, name, entry) ==
  LET a == AttrNamed(ps.doc, ElemPos(ps.doc, ord), name)
  IN  IF a # <<>> /\ a[1].val = <<Ph(entry.key)>> /\ entry.expr.isEvent
      THEN LET p1 == AssignId(ps, ord, "A")
               id == IdOf(p1.elementIds, <<ps.inv, ord>>)
           IN  [p1 EXCEPT
                 !.doc = removeAttribute(@, ElemPos(@, ord), name),
                 !.written = @ \cup SeqToSet(entry.expr.writes),
                 !.handlers = Append(@, [id |-> id, event |-> name,
                                         source |-> entry.expr.bodySource,
                                         writes |-> entry.expr.writes])]
      ELSE ps
RECURSIVE PassAPh(_, _, _, _)
PassAPh(ps, ord, name, entries) ==
  IF entries = <<>> THEN ps
  ELSE PassAPh(PassAStep(ps, ord, name, Head(entries)), ord, name, Tail(entries))
RECURSIVE PassAAttrs(_, _, _)
PassAAttrs(ps, ord, names) ==
  IF names = <<>> THEN ps
  ELSE PassAAttrs(PassAPh(ps, ord, Head(names), ps.placeholders), ord, Tail(names))
AttrNames(doc, ord) ==
  LET as == attributes(doc, ElemPos(doc, ord)) IN [k \in 1..Len(as) |-> as[k].name]
RECURSIVE PassAEls(_, _, _)
PassAEls(ps, ord, n) ==
  IF ord > n THEN ps
  ELSE PassAEls(PassAAttrs(ps, ord, AttrNames(ps.doc, ord)), ord + 1, n)
PassA(ps) == PassAEls(ps, 1, Len(allElements(ps.doc)))

\* 2. Process non-event attribute placeholders: src/main.ts:461-492
PassBStep(ps, ord, name, entry) ==
  LET a == AttrNamed(ps.doc, ElemPos(ps.doc, ord), name)
      valueTok == Val(entry.value, entry.src, entry.inst)
  IN  IF a # <<>> /\ a[1].val = <<Ph(entry.key)>> /\ ~entry.expr.isEvent
      THEN IF isReactiveIn(entry.expr, ps.written)
           THEN LET p1 == AssignId(ps, ord, "B")
                    id == IdOf(p1.elementIds, <<ps.inv, ord>>)
                IN  [p1 EXCEPT
                      !.doc = setAttributeValue(@, ElemPos(@, ord), name, valueTok),
                      !.bindings = Append(@, [id |-> id,
                                              signals |-> entry.expr.signals,
                                              source |-> entry.expr.source,
                                              attribute |-> name])]
           ELSE [ps EXCEPT
                  !.doc = setAttributeValue(@, ElemPos(@, ord), name, valueTok)]
      ELSE ps
RECURSIVE PassBPh(_, _, _, _)
PassBPh(ps, ord, name, entries) ==
  IF entries = <<>> THEN ps
  ELSE PassBPh(PassBStep(ps, ord, name, Head(entries)), ord, name, Tail(entries))
RECURSIVE PassBAttrs(_, _, _)
PassBAttrs(ps, ord, names) ==
  IF names = <<>> THEN ps
  ELSE PassBAttrs(PassBPh(ps, ord, Head(names), ps.placeholders), ord, Tail(names))
RECURSIVE PassBEls(_, _, _)
PassBEls(ps, ord, n) ==
  IF ord > n THEN ps
  ELSE PassBEls(PassBAttrs(ps, ord, AttrNames(ps.doc, ord)), ord + 1, n)
PassB(ps) == PassBEls(ps, 1, Len(allElements(ps.doc)))

\* 3. Process text node placeholders: src/main.ts:494-530.  k is the
\* ordinal of the text node: an identifier stamped on an element moves the
\* tokens of the text nodes after it, not their order.
PassTextStep(ps, k, entry) ==
  LET node == textNodes(ps.doc)[k]
      c == {q \in node.first..node.last : ps.doc[q] = Ph(entry.key)}
  IN  IF c = {} \/ entry.expr.isEvent THEN ps
      ELSE IF isReactiveIn(entry.expr, ps.written)
      THEN LET q == CHOOSE x \in c : \A y \in c : x <= y
               parent == parentElement(ps.doc, node.first)
               ord == IF parent = 0 THEN 0 ELSE OrdOf(ps.doc, parent)
               p0 == [ps EXCEPT !.doc = ReplaceAt(@, q,
                                   Val(entry.value, entry.src, entry.inst))]
               p1 == AssignId(p0, ord, "T")
               id == IdOf(p1.elementIds, <<ps.inv, ord>>)
           IN  [p1 EXCEPT
                 !.bindings = Append(@, [id |-> id,
                                         signals |-> entry.expr.signals,
                                         source |-> entry.expr.source,
                                         attribute |-> ""])]
      ELSE ps
RECURSIVE PassTextPh(_, _, _)
PassTextPh(ps, k, entries) ==
  IF entries = <<>> THEN ps
  ELSE PassTextPh(PassTextStep(ps, k, Head(entries)), k, Tail(entries))
RECURSIVE PassTextNodes(_, _, _)
PassTextNodes(ps, k, n) ==
  IF k > n THEN ps
  ELSE PassTextNodes(PassTextPh(ps, k, ps.placeholders), k + 1, n)
PassText(ps) == PassTextNodes(ps, 1, Len(textNodes(ps.doc)))

\* --------------------------------------------------------- Script Generator
\* JSON.stringify(value) inside a template literal: a function and
\* undefined have no JSON text and print as `undefined`
JSONstringify(value) == IF value.t \in {"fn", "undef"} THEN Undefined ELSE value
\* instance[signal]
FieldOf(fields, name) == IF name \in DOMAIN fields THEN fields[name] ELSE Undefined

\* every occurrence of a name, a repeated name repeated
AllSignalsRepeated(bindings, handlers) ==
  Concat([k \in 1..Len(bindings) |-> bindings[k].signals])
    \o Concat([k \in 1..Len(handlers) |-> handlers[k].writes])

AllSignalsOf(bindings, handlers) ==
  Dedup(Concat([k \in 1..Len(bindings) |-> bindings[k].signals])
          \o Concat([k \in 1..Len(handlers) |-> handlers[k].writes]))

\* src/main.ts:220-293.  The script text, by its parts: the `let`
\* declarations, the element references, the body of __update, the handler
\* installations and the promise chains.  A source with `this.` stripped is
\* the same expression read against the script's locals.
generateScript(inst, fields, bindings, handlers, asyncBindings) ==
  LET allSignals == AllSignalsOf(bindings, handlers)
      allIds == Dedup([k \in 1..Len(bindings) |-> bindings[k].id]
                        \o [k \in 1..Len(handlers) |-> handlers[k].id]
                        \o [k \in 1..Len(asyncBindings) |-> asyncBindings[k].id])
  IN  [inst |-> inst,
       decls |-> [k \in 1..Len(allSignals) |->
                    [name |-> allSignals[k],
                     value |-> JSONstringify(FieldOf(fields, allSignals[k]))]],
       ids |-> allIds,
       update |-> [k \in 1..Len(bindings) |->
                     [id |-> bindings[k].id, expr |-> bindings[k].source,
                      attribute |-> bindings[k].attribute]],
       handlers |-> [k \in 1..Len(handlers) |->
                       [id |-> handlers[k].id, event |-> handlers[k].event,
                        body |-> handlers[k].source]],
       asyncs |-> [k \in 1..Len(asyncBindings) |->
                     [id |-> asyncBindings[k].id,
                      promise |-> asyncBindings[k].promiseSource,
                      thenCb |-> asyncBindings[k].thenCallback,
                      catchCb |-> asyncBindings[k].catchCallback]]]

\* ------------------------------------------------------------------ state
VARIABLES
  insts,     \* the component instances created: [cls, fields]
  counters,  \* the idCounter objects created: the value of each
  facs,      \* the factories createHtmlFactory has made
  stack,     \* the calls in progress: render evaluating a template's
             \* interpolations, or html assembling and resolving it
  ninv,      \* the number of html calls made
  scripts,   \* the script blocks generated, in order
  log,       \* history: every identifier drawn from a counter
  output,    \* the response body, <<>> until the page's render returns
  promises,  \* the promises the render has created: the state of each
  dom,       \* the browser's document, <<>> until the response is loaded
  locals,    \* per script block: the values of its `let` variables
  refs,      \* per script block: the identifiers its querySelector found
  installed, \* the handler properties set on elements: [id, event, script, k]
  fired,     \* the number of events handled so far
  chains,    \* the promise chains the scripts have started
  astCache,  \* the module's astCache: the render methods it holds an AST for
  first      \* history: the first request served, <<>> until a second starts
client == <<dom, locals, refs, installed, fired, chains>>
process == <<astCache, first>>
vars == <<insts, counters, facs, stack, ninv, scripts, log, output, promises,
          dom, locals, refs, installed, fired, chains, astCache, first>>

ExprAt(cls, t, i) == Classes[cls].templates[t].exprs[i]
Top == stack[Len(stack)]
SetTop(f) == [stack EXCEPT ![Len(stack)] = f]
TopFac == facs[Top.fac]
TopInst == insts[TopFac.inst]
TopTemplate == Classes[TopInst.cls].templates[Top.tpl]

\* the fields of a new instance: the class's initial values, the
\* constructor's prop set from its argument
Coerce(default, n) == IF default.t = "bool" THEN Bool(n % 2 = 1) ELSE Num(n)
NewInst(cls, n) ==
  LET c == Classes[cls]
  IN  [cls |-> cls,
       fields |-> IF c.prop = "" THEN c.fields
                  ELSE [c.fields EXCEPT ![c.prop] = Coerce(@, n)]]

\* src/main.ts:318-328: the analysis of the page's render method and the
\* factory's own lists; idCounter is the counter object handed in
createHtmlFactory(inst, cls, idCounter) ==
  [inst |-> inst, analysis |-> analyzeRender(cls), ctr |-> idCounter,
   bindings |-> <<>>, handlers |-> <<>>, asyncBindings |-> <<>>,
   elementIds |-> <<>>, by |-> [inv |-> 0, fac |-> 0]]

\* a call of page.render: the host evaluates the interpolations of template
\* tpl, then calls html with them
Frame(fac, tpl, arg) ==
  [fac |-> fac, tpl |-> tpl, arg |-> arg, phase |-> "eval", i |-> 1,
   item |-> 1, acc |-> <<>>, vals |-> <<>>, html |-> <<>>,
   placeholders |-> <<>>, written |-> {}, inv |-> 0]

\* the value of an expression that calls neither html nor a constructor
Eval(expr, fields, arg) ==
  CASE expr.kind = "lit" -> expr.lit
    [] expr.kind = "arg" -> arg
    [] expr.kind \in {"field", "and"} -> FieldOf(fields, expr.f)
    [] expr.kind = "sum" ->
         Num(FieldOf(fields, expr.f).v + FieldOf(fields, expr.g).v)
    [] expr.kind = "tern" ->
         Str(IF Truthy(FieldOf(fields, expr.f)) THEN 1 ELSE 0)
    [] expr.kind = "arrow" -> Fn
    [] expr.kind = "call" -> Promise
    [] expr.kind = "len" -> Num(Len(FieldOf(fields, expr.f).items))
    [] expr.kind = "method" -> Num(FieldOf(fields, expr.g).v + 1)

Init ==
  /\ insts = <<>>
  /\ counters = <<>>
  /\ facs = <<>>
  /\ stack = <<>>
  /\ ninv = 0
  /\ scripts = <<>>
  /\ log = <<>>
  /\ output = <<>>
  /\ promises = <<>>
  /\ dom = <<>>
  /\ locals = <<>>
  /\ refs = <<>>
  /\ installed = <<>>
  /\ fired = 0
  /\ chains = <<>>
  /\ astCache = {}
  /\ first = <<>>

\* src/main.ts:28-42, getAst: the AST of a render method, parsed on the
\* first call and taken from astCache afterwards. A render method is the
\* method of its class, so its identity is the class. No function of
\* src/main.ts calls getAst.
getAst(cache, renderFn) ==
  [cache |-> cache \cup {renderFn}, parsed |-> renderFn \notin cache]

\* src/main.ts:108-111, the head of analyzeRender: it calls parse on the
\* method's source itself, and neither reads astCache nor adds to it
analyzeRenderParse(cache, renderFn) == [cache |-> cache, parsed |-> TRUE]

\* a counter object shared by every factory made without one
DefaultIdCounterShared(prev) == IF prev = <<>> THEN 0 ELSE prev[1]

\* src/main.ts:321, the default of createHtmlFactory's idCounter parameter:
\* the expression { value: 0 } is evaluated at each call that passes no
\* counter, whatever counters `prev` earlier calls have made
DefaultIdCounter(prev) == 0

\* Deno.serve's handler, src/main.ts:667-673: new Page(), a factory with a
\* counter of its own, page.render({ html, req })
Serve(cls, n) ==
  /\ \/ insts = <<>>
     \/ output # <<>> /\ dom = <<>>
  /\ Classes[cls].prop = "" => n = 0
  /\ first' = IF output # <<>> /\ first = <<>>
              THEN <<[cls |-> insts[1].cls, fields |-> insts[1].fields,
                      out |-> output, scripts |-> scripts]>>
              ELSE first
  /\ astCache' = analyzeRenderParse(astCache, cls).cache
  /\ insts' = <<NewInst(cls, n)>>
  /\ counters' = <<DefaultIdCounter(counters)>>
  /\ facs' = <<createHtmlFactory(1, cls, 1)>>
  /\ stack' = <<Frame(1, 1, Undefined)>>
  /\ ninv' = 0
  /\ scripts' = <<>>
  /\ log' = <<>>
  /\ output' = <<>>
  /\ promises' = <<>>
  /\ UNCHANGED client

Evaluating == stack # <<>> /\ Top.phase = "eval"
           /\ Top.i <= Len(TopTemplate.exprs)
CurExpr == TopTemplate.exprs[Top.i]

\* an interpolation that is a plain expression
EvalValue ==
  /\ Evaluating
  /\ \/ CurExpr.kind \in {"lit", "arg", "field", "sum", "tern", "arrow", "call",
                        "len", "method"}
     \/ CurExpr.kind = "and" /\ ~Truthy(FieldOf(TopInst.fields, CurExpr.f))
  /\ stack' = SetTop([Top EXCEPT
                       !.vals = Append(@, Eval(CurExpr, TopInst.fields, Top.arg)),
                       !.i = @ + 1])
  /\ promises' = IF CurExpr.kind = "call" THEN Append(promises, "pending")
                 ELSE promises
  /\ UNCHANGED <<insts, counters, facs, ninv, scripts, log, output, client, process>>

\* new Child({ initial: n }), or an array of two of them
EvalNew ==
  /\ Evaluating
  /\ CurExpr.kind \in {"new", "news"}
  /\ LET k == Len(insts)
     IN  IF CurExpr.kind = "new"
         THEN /\ insts' = Append(insts, NewInst(CurExpr.cls, CurExpr.n))
              /\ stack' = SetTop([Top EXCEPT !.vals = Append(@, Inst(k + 1)),
                                             !.i = @ + 1])
         ELSE /\ insts' = insts \o <<NewInst(CurExpr.cls, CurExpr.n),
                                     NewInst(CurExpr.cls, CurExpr.n + 1)>>
              /\ stack' = SetTop([Top EXCEPT
                                   !.vals = Append(@, Arr(<<Inst(k + 1), Inst(k + 2)>>)),
                                   !.i = @ + 1])
  /\ UNCHANGED <<counters, facs, ninv, scripts, log, output, promises, client, process>>

\* a nested html`...` of the same render method: its html call runs, with
\* the same factory, before the call of the template that contains it
EvalTemplate ==
  /\ Evaluating
  /\ \/ CurExpr.kind = "tpl"
     \/ CurExpr.kind = "and" /\ Truthy(FieldOf(TopInst.fields, CurExpr.f))
     \/ /\ CurExpr.kind = "map"
        /\ Top.item <= Len(FieldOf(TopInst.fields, CurExpr.f).items)
  /\ LET arg == IF CurExpr.kind = "map"
                THEN FieldOf(TopInst.fields, CurExpr.f).items[Top.item]
                ELSE Top.arg
     IN  stack' = Append(SetTop([Top EXCEPT !.phase = "evalwait"]),
                         Frame(Top.fac, CurExpr.tpl, arg))
  /\ UNCHANGED <<insts, counters, facs, ninv, scripts, log, output, promises, client, process>>

\* this.items.map(...) has run over every item
EvalMapDone ==
  /\ Evaluating
  /\ CurExpr.kind = "map"
  /\ Top.item > Len(FieldOf(TopInst.fields, CurExpr.f).items)
  /\ stack' = SetTop([Top EXCEPT !.vals = Append(@, Arr(Top.acc)),
                                 !.acc = <<>>, !.item = 1, !.i = @ + 1])
  /\ UNCHANGED <<insts, counters, facs, ninv, scripts, log, output, promises, client, process>>

\* html is called with the values: src/main.ts:335-345
WrittenSignals(analysis) ==
  UNION {SeqToSet(analysis[k].writes) : k \in 1..Len(analysis)}
Invoke ==
  /\ stack # <<>> /\ Top.phase = "eval"
  /\ Top.i > Len(TopTemplate.exprs)
  /\ ninv' = ninv + 1
  /\ stack' = SetTop([Top EXCEPT !.phase = "str", !.i = 1, !.inv = ninv + 1,
                                 !.written = WrittenSignals(TopFac.analysis)])
  /\ UNCHANGED <<insts, counters, facs, scripts, log, output, promises, client, process>>

\* ----------------------------------------------------- markup assembly
\* analysis[i] of the factory: html looks the classification up by the
\* index of the value within this call.  Absent (undefined) past the end.
NoAnalysis ==
  [signals |-> <<>>, writes |-> <<>>, isFunction |-> FALSE, isEvent |-> FALSE,
   eventName |-> "", source |-> [cls |-> "", tpl |-> 0, slot |-> 0],
   bodySource |-> <<>>, isAsync |-> FALSE, promiseSource |-> NoPromise,
   thenCallback |-> "", catchCallback |-> ""]
AnalysisAt(analysis, i) == IF i <= Len(analysis) THEN analysis[i] ELSE NoAnalysis

\* strings[i].match(/(\w+)=(['"]?)$/) with no quote matched: src/main.ts:354-355
isAttrPosition(str) ==
  LET n == Len(str)
  IN  n >= 2 /\ str[n].k = "eq" /\ str[n - 1].k \in WordKinds

\* templateHtml.replace(/\s\w+=$/, ""): src/main.ts:405
RemoveTrailingAttr(templateHtml) ==
  LET n == Len(templateHtml)
  IN  IF /\ n >= 3 /\ templateHtml[n].k = "eq"
         /\ templateHtml[n - 1].k \in {"w", "ph", "val"}
         /\ templateHtml[n - 2].k = "ws"
      THEN SubSeq(templateHtml, 1, n - 3) ELSE templateHtml

\* which branch of src/main.ts:361-417 a value takes
Branch(value, expr, writtenSignals) ==
  IF expr.isAsync THEN "async"
  ELSE IF expr.isEvent \/ isReactiveIn(expr, writtenSignals) THEN "placeholder"
  ELSE IF isSafeHtml(value) THEN "safe"
  ELSE IF isRenderable(value) THEN "renderable"
  ELSE IF value.t = "arr" THEN "array"
  ELSE IF IsFalsySentinel(value) THEN "falsy"
  ELSE "plain"

\* a child factory left to its default counter, { value: 0 }
ChildIdCounterOwn(shared, fresh) == fresh
\* the idCounter a child factory is created with: the parent's own
\* (createHtmlFactory(value, ctx, idCounter), src/main.ts:382, 390)
ChildIdCounter(shared, fresh) == shared

\* an anchor that holds the data of a promise already resolved
AsyncAnchorAwaited(id) ==
  IF \E k \in 1..Len(promises) : promises[k] = "resolved"
  THEN <<Lt("span"), Ws, Zid(id), Gt, W("data"), Etag("span")>>
  ELSE <<Lt("span"), Ws, Zid(id), Gt, Etag("span")>>
\* the anchor of an async interpolation: src/main.ts:364
AsyncAnchor(id) == <<Lt("span"), Ws, Zid(id), Gt, Etag("span")>>

\* String(value) escaped through a div's textContent: src/main.ts:398-400, 409-415
Escaped(value, src, inst) == Val(value, src, inst)

InSlot == stack # <<>> /\ Top.phase = "slot"
CurValue == Top.vals[Top.i]
CurAnalysis == AnalysisAt(TopFac.analysis, Top.i)
CurBranch == Branch(CurValue, CurAnalysis, Top.written)
CurSrc == <<TopInst.cls, Top.tpl, Top.i>>
NextSlot(f) == [f EXCEPT !.phase = "str", !.i = @ + 1, !.item = 1]

\* templateHtml += strings[i]: src/main.ts:347-350
AppendString ==
  /\ stack # <<>> /\ Top.phase = "str"
  /\ stack' = SetTop([Top EXCEPT
                       !.html = @ \o TopTemplate.strings[Top.i],
                       !.phase = IF Top.i <= Len(Top.vals) THEN "slot" ELSE "check"])
  /\ UNCHANGED <<insts, counters, facs, ninv, scripts, log, output, promises, client, process>>

\* src/main.ts:361-370
SlotAsync ==
  /\ InSlot /\ CurBranch = "async"
  /\ LET id == counters[TopFac.ctr]
     IN  /\ counters' = [counters EXCEPT ![TopFac.ctr] = @ + 1]
         /\ facs' = [facs EXCEPT ![Top.fac].asyncBindings =
                       Append(@, [id |-> id,
                                  promiseSource |-> CurAnalysis.promiseSource,
                                  thenCallback |-> CurAnalysis.thenCallback,
                                  catchCallback |-> CurAnalysis.catchCallback])]
         /\ log' = Append(log, [id |-> id, fac |-> Top.fac, inv |-> Top.inv,
                                ord |-> -1, pass |-> "asm",
                                src |-> <<CurAnalysis.source>>])
         /\ stack' = SetTop(NextSlot([Top EXCEPT !.html = @ \o AsyncAnchor(id)]))
  /\ UNCHANGED <<insts, ninv, scripts, output, promises, client, process>>

\* src/main.ts:371-378
SlotPlaceholder ==
  /\ InSlot /\ CurBranch = "placeholder"
  /\ LET key == Top.i - 1
         entry == [key |-> key, value |-> CurValue, expr |-> CurAnalysis,
                   src |-> CurSrc, inst |-> TopFac.inst]
     IN  stack' = SetTop(NextSlot([Top EXCEPT
           !.placeholders = Append(@, entry),
           !.html = @ \o (IF isAttrPosition(TopTemplate.strings[Top.i])
                          THEN <<Q, Ph(key), Q>> ELSE <<Ph(key)>>)]))
  /\ UNCHANGED <<insts, counters, facs, ninv, scripts, log, output, promises, client, process>>

\* src/main.ts:379-380
SlotSafeHtml ==
  /\ InSlot /\ CurBranch = "safe"
  /\ stack' = SetTop(NextSlot([Top EXCEPT !.html = @ \o CurValue.h]))
  /\ UNCHANGED <<insts, counters, facs, ninv, scripts, log, output, promises, client, process>>

\* a child factory and the child's render: src/main.ts:381-383, 389-391
CallChild(inst, waiting) ==
  LET ctr == ChildIdCounter(TopFac.ctr, Len(counters) + 1)
  IN  /\ counters' = IF ctr > Len(counters) THEN Append(counters, 0) ELSE counters
      /\ facs' = Append(facs, [createHtmlFactory(inst, insts[inst].cls, ctr)
                                 EXCEPT !.by = [inv |-> Top.inv, fac |-> Top.fac]])
      /\ stack' = Append(SetTop([Top EXCEPT !.phase = waiting]),
                         Frame(Len(facs) + 1, 1, Undefined))
SlotRenderable ==
  /\ InSlot /\ CurBranch = "renderable"
  /\ CallChild(CurValue.v, "wait")
  /\ UNCHANGED <<insts, ninv, scripts, log, output, promises, client, process>>

\* one item of an array value: src/main.ts:385-402
SlotArrayItem ==
  /\ InSlot /\ CurBranch = "array"
  /\ Top.item <= Len(CurValue.items)
  /\ LET item == CurValue.items[Top.item]
     IN  IF isRenderable(item) /\ ~isSafeHtml(item)
         THEN CallChild(item.v, "itemwait")
         ELSE /\ stack' = SetTop([Top EXCEPT
                   !.item = @ + 1,
                   !.html = @ \o (IF isSafeHtml(item) THEN item.h
                                  ELSE IF IsFalsySentinel(item) THEN <<>>
                                  ELSE <<Escaped(item, CurSrc, TopFac.inst)>>)])
              /\ UNCHANGED <<counters, facs>>
  /\ UNCHANGED <<insts, ninv, scripts, log, output, promises, client, process>>
SlotArrayDone ==
  /\ InSlot /\ CurBranch = "array"
  /\ Top.item > Len(CurValue.items)
  /\ stack' = SetTop(NextSlot(Top))
  /\ UNCHANGED <<insts, counters, facs, ninv, scripts, log, output, promises, client, process>>

\* src/main.ts:403-406
SlotFalsy ==
  /\ InSlot /\ CurBranch = "falsy"
  /\ stack' = SetTop(NextSlot([Top EXCEPT
       !.html = IF isAttrPosition(TopTemplate.strings[Top.i])
                THEN RemoveTrailingAttr(@) ELSE @]))
  /\ UNCHANGED <<insts, counters, facs, ninv, scripts, log, output, promises, client, process>>

\* src/main.ts:407-417
SlotPlain ==
  /\ InSlot /\ CurBranch = "plain"
  /\ LET tok == Escaped(CurValue, CurSrc, TopFac.inst)
     IN  stack' = SetTop(NextSlot([Top EXCEPT
           !.html = @ \o (IF isAttrPosition(TopTemplate.strings[Top.i])
                          THEN <<Q, tok, Q>> ELSE <<tok>>)]))
  /\ UNCHANGED <<insts, counters, facs, ninv, scripts, log, output, promises, client, process>>

\* ------------------------------------------------- resolution and output
\* src/main.ts:421-425
NothingToResolve(placeholders, asyncBindings, handlers, bindings) ==
  placeholders = <<>> /\ asyncBindings = <<>> /\ handlers = <<>>
\* src/main.ts:534-536
NeedsScript(handlers, bindings, asyncBindings) ==
  handlers # <<>> \/ bindings # <<>> \/ asyncBindings # <<>>

\* return safeHtml(templateHtml): src/main.ts:421-427
EarlyReturn ==
  /\ stack # <<>> /\ Top.phase = "check"
  /\ NothingToResolve(Top.placeholders, TopFac.asyncBindings,
                      TopFac.handlers, TopFac.bindings)
  /\ stack' = SetTop([Top EXCEPT !.phase = "ret"])
  /\ UNCHANGED <<insts, counters, facs, ninv, scripts, log, output, promises, client, process>>

\* root.innerHTML = templateHtml: src/main.ts:429-431
Parse ==
  /\ stack # <<>> /\ Top.phase = "check"
  /\ ~NothingToResolve(Top.placeholders, TopFac.asyncBindings,
                       TopFac.handlers, TopFac.bindings)
  /\ stack' = SetTop([Top EXCEPT !.phase = "passA", !.html = Normalize(@, 1)])
  /\ UNCHANGED <<insts, counters, facs, ninv, scripts, log, output, promises, client, process>>

PassState ==
  [doc |-> Top.html, elementIds |-> TopFac.elementIds,
   ctr |-> counters[TopFac.ctr], handlers |-> TopFac.handlers,
   bindings |-> TopFac.bindings, written |-> Top.written, log |-> log,
   inv |-> Top.inv, fac |-> Top.fac, placeholders |-> Top.placeholders]
AfterPass(ps, phase) ==
  /\ stack' = SetTop([Top EXCEPT !.phase = phase, !.html = ps.doc,
                                 !.written = ps.written])
  /\ facs' = [facs EXCEPT ![Top.fac].elementIds = ps.elementIds,
                          ![Top.fac].handlers = ps.handlers,
                          ![Top.fac].bindings = ps.bindings]
  /\ counters' = [counters EXCEPT ![TopFac.ctr] = ps.ctr]
  /\ log' = ps.log
  /\ UNCHANGED <<insts, ninv, scripts, output, promises, client, process>>

ProcessEvents ==
  /\ stack # <<>> /\ Top.phase = "passA"
  /\ AfterPass(PassA(PassState), "passB")
ProcessAttributes ==
  /\ stack # <<>> /\ Top.phase = "passB"
  /\ AfterPass(PassB(PassState), "text")
ProcessText ==
  /\ stack # <<>> /\ Top.phase = "text"
  /\ AfterPass(PassText(PassState), "finish")

\* let result = root.innerHTML; result += generateScript(...):
\* src/main.ts:532-540
Finish ==
  /\ stack # <<>> /\ Top.phase = "finish"
  /\ IF NeedsScript(TopFac.handlers, TopFac.bindings, TopFac.asyncBindings)
     THEN /\ scripts' = Append(scripts,
                 generateScript(TopFac.inst, TopInst.fields, TopFac.bindings,
                                TopFac.handlers, TopFac.asyncBindings))
          /\ stack' = SetTop([Top EXCEPT !.phase = "ret",
                                         !.html = Append(@, Scr(Len(scripts) + 1))])
     ELSE /\ scripts' = scripts
          /\ stack' = SetTop([Top EXCEPT !.phase = "ret"])
  /\ UNCHANGED <<insts, counters, facs, ninv, log, output, promises, client, process>>

\* html returns safeHtml(result) to the code that called it
Return ==
  /\ stack # <<>> /\ Top.phase = "ret"
  /\ LET n == Len(stack)
         content == Top.html
     IN  IF n = 1
         THEN /\ output' = <<content>>      \* src/main.ts:673-677
              /\ stack' = <<>>
         ELSE LET caller == stack[n - 1]
                  cexpr == ExprAt(insts[facs[caller.fac].inst].cls,
                                  caller.tpl, caller.i)
              IN  /\ output' = output
                  /\ stack' = Append(SubSeq(stack, 1, n - 2),
                       CASE caller.phase = "evalwait" /\ cexpr.kind = "map" ->
                              [caller EXCEPT !.phase = "eval",
                                             !.acc = Append(@, safeHtml(content)),
                                             !.item = @ + 1]
                         [] caller.phase = "evalwait" /\ cexpr.kind # "map" ->
                              [caller EXCEPT !.phase = "eval",
                                             !.vals = Append(@, safeHtml(content)),
                                             !.i = @ + 1]
                         [] caller.phase = "wait" ->
                              NextSlot([caller EXCEPT !.html = @ \o content])
                         [] caller.phase = "itemwait" ->
                              [caller EXCEPT !.phase = "slot",
                                             !.html = @ \o content,
                                             !.item = @ + 1])
  /\ UNCHANGED <<insts, counters, facs, ninv, scripts, log, promises, client, process>>

\* the promise a render created settles: the fetch behind it completes or
\* fails, at any moment; a promise that never settles stays pending
Settle(k, outcome) ==
  /\ k \in 1..Len(promises)
  /\ promises[k] = "pending"
  /\ promises' = [promises EXCEPT ![k] = outcome]
  /\ UNCHANGED <<insts, counters, facs, stack, ninv, scripts, log, output, client, process>>

\* ------------------------------------------------ the script in the browser
\* the `let` variables of a script block: a list of [name, value]
Declared(env, name) == \E k \in 1..Len(env) : env[k].name = name
Lookup(env, name) == env[CHOOSE k \in 1..Len(env) : env[k].name = name].value
Assign(env, name, value) ==
  [k \in 1..Len(env) |->
     IF env[k].name = name THEN [env[k] EXCEPT !.value = value] ELSE env[k]]

\* one statement of a handler body, `this.` stripped: src/main.ts:266.  An
\* identifier that is not declared throws a ReferenceError (ok = FALSE).
ExecStmt(env, st) ==
  IF ~Declared(env, st.f) THEN [env |-> env, ok |-> st.op = "settrue"]
  ELSE CASE st.op = "inc" ->
              [env |-> Assign(env, st.f, Num(Lookup(env, st.f).v + 1)), ok |-> TRUE]
         [] st.op = "dec" ->
              [env |-> Assign(env, st.f, Num(Lookup(env, st.f).v - 1)), ok |-> TRUE]
         [] st.op = "addf" ->
              IF Declared(env, st.g)
              THEN [env |-> Assign(env, st.f,
                              Num(Lookup(env, st.f).v + Lookup(env, st.g).v)),
                    ok |-> TRUE]
              ELSE [env |-> env, ok |-> FALSE]
         [] st.op = "toggle" ->
              [env |-> Assign(env, st.f, Bool(~Truthy(Lookup(env, st.f)))),
               ok |-> TRUE]
         [] st.op = "settrue" ->
              [env |-> Assign(env, st.f, Bool(TRUE)), ok |-> TRUE]
RECURSIVE ExecBody(_, _)
ExecBody(env, body) ==
  IF body = <<>> THEN [env |-> env, ok |-> TRUE]
  ELSE LET r == ExecStmt(env, Head(body))
       IN  IF r.ok THEN ExecBody(r.env, Tail(body)) ELSE r

\* a binding's expression, `this.` stripped, evaluated against the locals:
\* src/main.ts:255.  html, the methods and the classes of the server are
\* not defined in the script.
EvalClient(expr, env) ==
  LET no == [ok |-> FALSE, value |-> Undefined]
      yes(v) == [ok |-> TRUE, value |-> v]
  IN  CASE expr.kind = "lit" -> yes(expr.lit)
        [] expr.kind = "arrow" -> yes(Fn)
        [] expr.kind = "field" ->
             IF Declared(env, expr.f) THEN yes(Lookup(env, expr.f)) ELSE no
        [] expr.kind = "sum" ->
             IF Declared(env, expr.f) /\ Declared(env, expr.g)
             THEN yes(Num(Lookup(env, expr.f).v + Lookup(env, expr.g).v)) ELSE no
        [] expr.kind = "tern" ->
             IF Declared(env, expr.f)
             THEN yes(Str(IF Truthy(Lookup(env, expr.f)) THEN 1 ELSE 0)) ELSE no
        [] expr.kind = "and" ->
             IF Declared(env, expr.f) /\ ~Truthy(Lookup(env, expr.f))
             THEN yes(Lookup(env, expr.f)) ELSE no
        [] expr.kind = "map" ->
             IF Declared(env, expr.f) /\ Lookup(env, expr.f).items = <<>>
             THEN yes(Arr(<<>>)) ELSE no
        [] expr.kind = "len" ->
             IF Declared(env, expr.f)
             THEN yes(Num(Len(Lookup(env, expr.f).items))) ELSE no
        [] expr.kind = "method" ->
             IF /\ Declared(env, expr.f) /\ Lookup(env, expr.f).t = "fn"
                /\ Declared(env, expr.g)
             THEN yes(Num(Lookup(env, expr.g).v + 1)) ELSE no
        [] OTHER -> no

\* document.querySelector('[data-zid="_id"]'): the first element of doc
\* that carries the identifier, 0 when there is none
ZidPos(doc, id) ==
  LET c == {p \in 1..Len(doc) :
              /\ doc[p].k = "lt"
              /\ \E q \in (p + 1)..TagEnd(doc, p) : doc[q] = Zid(id)}
  IN  IF c = {} THEN 0 ELSE CHOOSE p \in c : \A r \in c : p <= r

\* el.textContent = value
setTextContent(doc, p, toks) ==
  IF doc[p].s \in VoidTags THEN doc
  ELSE SubSeq(doc, 1, TagEnd(doc, p)) \o toks
         \o SubSeq(doc, ElemClose(doc, p), Len(doc))
\* el.setAttribute(name, value)
setAttribute(doc, p, name, valueTok) ==
  IF AttrNamed(doc, p, name) = <<>>
  THEN InsertBefore(doc, TagEnd(doc, p), <<Ws, W(name), Eq, Q, valueTok, Q>>)
  ELSE setAttributeValue(doc, p, name, valueTok)

\* the script blocks of the document, in document order: [pos, n]
RECURSIVE ScriptsFrom(_, _)
ScriptsFrom(doc, p) ==
  IF p > Len(doc) THEN <<>>
  ELSE (IF doc[p].k = "scr" THEN <<[pos |-> p, n |-> doc[p].n]>> ELSE <<>>)
         \o ScriptsFrom(doc, p + 1)
ScriptsIn(doc) == ScriptsFrom(doc, 1)

\* _id.onevent = () => { body; __update(); }: src/main.ts:265-268.  Setting
\* a property of null throws and ends the script.
RECURSIVE InstallFrom(_, _, _, _, _)
InstallFrom(inst, s, handlers, k, found) ==
  IF k > Len(handlers) \/ handlers[k].id \notin found THEN inst
  ELSE LET h == handlers[k]
           keep == {j \in 1..Len(inst) :
                      ~(inst[j].id = h.id /\ inst[j].event = h.event)}
           RECURSIVE Kept(_)
           Kept(j) == IF j > Len(inst) THEN <<>>
                      ELSE (IF j \in keep THEN <<inst[j]>> ELSE <<>>) \o Kept(j + 1)
       IN  InstallFrom(Append(Kept(1), [id |-> h.id, event |-> h.event,
                                        script |-> s, k |-> k]),
                       s, handlers, k + 1, found)

\* the promise chains of a script block: src/main.ts:270-288.  The promise
\* expression is evaluated when the script runs; with `this.` stripped, a
\* call of a method is a call of an undefined name, which throws and ends
\* the script.
RECURSIVE StartFrom(_, _, _, _)
StartFrom(chs, s, asyncs, k) ==
  IF k > Len(asyncs) \/ asyncs[k].promise.f \notin GlobalFns THEN chs
  ELSE StartFrom(Append(chs, [script |-> s, k |-> k, id |-> asyncs[k].id,
                              state |-> "pending", primary |-> "pending"]),
                 s, asyncs, k + 1)

\* a script block runs when the parser reaches it: src/main.ts:230-290.
\* It sees the elements parsed before it.
RunScript(cs, at) ==
  LET sc == scripts[at.n]
      seen == SubSeq(cs.dom, 1, at.pos - 1)
      found == {id \in SeqToSet(sc.ids) : ZidPos(seen, id) # 0}
      thrown == \E k \in 1..Len(sc.handlers) : sc.handlers[k].id \notin found
  IN  [cs EXCEPT !.locals[at.n] = sc.decls,
                 !.refs[at.n] = found,
                 !.installed = InstallFrom(@, at.n, sc.handlers, 1, found),
                 !.chains = IF thrown THEN @
                            ELSE StartFrom(@, at.n, sc.asyncs, 1)]
RECURSIVE RunScripts(_, _)
RunScripts(cs, ats) ==
  IF ats = <<>> THEN cs ELSE RunScripts(RunScript(cs, Head(ats)), Tail(ats))

\* the browser loads the response
Load ==
  /\ output # <<>> /\ dom = <<>>
  /\ LET cs == RunScripts([dom |-> output[1],
                           locals |-> [k \in 1..Len(scripts) |-> <<>>],
                           refs |-> [k \in 1..Len(scripts) |-> {}],
                           installed |-> <<>>, chains |-> <<>>],
                          ScriptsIn(output[1]))
     IN  /\ dom' = <<cs.dom>>
         /\ locals' = cs.locals
         /\ refs' = cs.refs
         /\ installed' = cs.installed
         /\ chains' = cs.chains
  /\ UNCHANGED <<insts, counters, facs, stack, ninv, scripts, log, output,
                 promises, process, fired>>

\* function __update() of script block s: src/main.ts:252-262
UpdateStep(st, s, b) ==
  LET expr == ExprAt(b.expr.cls, b.expr.tpl, b.expr.slot)
      r == EvalClient(expr, st.env)
      p == ZidPos(st.doc, b.id)
      tok == Val(r.value, <<b.expr.cls, b.expr.tpl, b.expr.slot>>, scripts[s].inst)
  IN  IF ~st.ok THEN st
      ELSE IF ~r.ok \/ b.id \notin refs[s] THEN [st EXCEPT !.ok = FALSE]
      ELSE IF p = 0 THEN st
      ELSE IF b.attribute = ""
      THEN [st EXCEPT !.doc = setTextContent(@, p, <<tok>>)]
      ELSE [st EXCEPT !.doc = setAttribute(@, p, b.attribute, tok)]
RECURSIVE UpdateFrom(_, _, _)
UpdateFrom(st, s, bs) ==
  IF bs = <<>> THEN st ELSE UpdateFrom(UpdateStep(st, s, Head(bs)), s, Tail(bs))
update(doc, s, env) ==
  UpdateFrom([doc |-> doc, env |-> env, ok |-> TRUE], s, scripts[s].update)

\* the event of an installed handler fires on an element of the document:
\* the body runs, then __update
Fire(h) ==
  /\ dom # <<>> /\ fired < MaxEvents
  /\ h \in SeqToSet(installed)
  /\ ZidPos(dom[1], h.id) # 0
  \* a disabled control dispatches no click
  /\ ~(h.event = "onclick"
        /\ AttrNamed(dom[1], ZidPos(dom[1], h.id), "disabled") # <<>>)
  /\ LET r == ExecBody(locals[h.script], scripts[h.script].handlers[h.k].body)
     IN  /\ locals' = [locals EXCEPT ![h.script] = r.env]
         /\ dom' = IF r.ok THEN <<update(dom[1], h.script, r.env).doc>> ELSE dom
  /\ fired' = fired + 1
  /\ UNCHANGED <<insts, counters, facs, stack, ninv, scripts, log, output,
                 promises, process, refs, installed, chains>>

\* the markup a callback returns
Res(cb) == Tok("res", cb, 0)
\* el.innerHTML = content
setInnerHTML(doc, p, toks) == setTextContent(doc, p, toks)

\* a chain whose content assignment also runs as a rejection handler
ReactOnRejection(a, outcome, thenOk, catchOk, found) ==
  LET set1 == thenOk /\ found
  IN  [set |-> IF set1 THEN <<Res(a.thenCb)>> ELSE <<>>,
       primary |-> IF outcome = "resolved" /\ set1 THEN "fulfilled" ELSE "rejected",
       state |-> IF set1 THEN "fulfilled" ELSE "rejected"]
\* a chain whose second assignment lacks the `if (__html)` guard: after the
\* first assignment it assigns the undefined that assignment returned
ReactUnguarded(a, outcome, thenOk, catchOk, found) ==
  LET set1 == outcome = "resolved" /\ thenOk /\ found
      set2 == a.catchCb # "" /\ (set1 \/ catchOk) /\ found
  IN  [set |-> IF set2 THEN (IF set1 THEN <<Val(Undefined, <<>>, 0)>>
                            ELSE <<Res(a.catchCb)>>)
               ELSE IF set1 THEN <<Res(a.thenCb)>> ELSE <<>>,
       primary |-> IF set1 THEN "fulfilled" ELSE "rejected",
       state |-> IF set1 \/ set2 THEN "fulfilled" ELSE "rejected"]

\* what the chain of async binding a does once its promise has settled:
\*   promise.then(thenCb).then(__html => { el.innerHTML = ... })
\*          [.catch(catchCb).then(__html => { if (__html) el.innerHTML = ... })]
\* src/main.ts:275-285.  thenOk, catchOk: the callback returns (it does not
\* throw); found: the element reference is not null.  set is the content
\* assigned to the anchor, <<>> when nothing is assigned.
React(a, outcome, thenOk, catchOk, found) ==
  LET set1 == outcome = "resolved" /\ thenOk /\ found
      primary == IF set1 THEN "fulfilled" ELSE "rejected"
      set2 == a.catchCb # "" /\ ~set1 /\ catchOk /\ found
  IN  [set |-> IF set1 THEN <<Res(a.thenCb)>>
               ELSE IF set2 THEN <<Res(a.catchCb)>> ELSE <<>>,
       primary |-> primary,
       state |-> IF set1 \/ set2 THEN "fulfilled" ELSE "rejected"]

\* the promise of chain c settles and the chain's reactions run
ChainSettle(c, outcome, thenOk, catchOk) ==
  /\ c \in 1..Len(chains) /\ chains[c].state = "pending"
  /\ LET ch == chains[c]
         a == scripts[ch.script].asyncs[ch.k]
         r == React(a, outcome, thenOk, catchOk, a.id \in refs[ch.script])
         p == ZidPos(dom[1], a.id)
     IN  /\ chains' = [chains EXCEPT ![c].state = r.state,
                                     ![c].primary = r.primary]
         /\ dom' = IF r.set # <<>> /\ p # 0
                   THEN <<setInnerHTML(dom[1], p, r.set)>> ELSE dom
  /\ UNCHANGED <<insts, counters, facs, stack, ninv, scripts, log, output,
                 promises, process, locals, refs, installed, fired>>

Next ==
  \/ \E cls \in Pages, n \in 0..MaxInit : Serve(cls, n)
  \/ EvalValue
  \/ EvalNew
  \/ EvalTemplate
  \/ EvalMapDone
  \/ Invoke
  \/ AppendString
  \/ SlotAsync
  \/ SlotPlaceholder
  \/ SlotSafeHtml
  \/ SlotRenderable
  \/ SlotArrayItem
  \/ SlotArrayDone
  \/ SlotFalsy
  \/ SlotPlain
  \/ EarlyReturn
  \/ Parse
  \/ ProcessEvents
  \/ ProcessAttributes
  \/ ProcessText
  \/ Finish
  \/ Return
  \/ \E k \in 1..Len(promises), outcome \in {"resolved", "rejected"} :
       Settle(k, outcome)
  \/ Load
  \/ \E h \in SeqToSet(installed) : Fire(h)
  \/ \E c \in 1..Len(chains), outcome \in {"resolved", "rejected"},
        thenOk \in BOOLEAN, catchOk \in BOOLEAN :
       ChainSettle(c, outcome, thenOk, catchOk)

Spec == Init /\ [][Next]_vars

\* ------------------------------------------------------------- properties
Out == output[1]
Doc == dom[1]
PageCls == insts[1].cls
Count(doc, kind) == Cardinality({p \in 1..Len(doc) : doc[p].k = kind})
\* the characters of a run of tokens, whatever produced them
Plain(toks) ==
  [k \in 1..Len(toks) |-> [k |-> toks[k].k, s |-> toks[k].s, n |-> toks[k].n]]
\* toks holds sub as a contiguous run
Holds(toks, sub) ==
  \E p \in 1..Len(toks) :
    p + Len(sub) - 1 <= Len(toks) /\ SubSeq(toks, p, p + Len(sub) - 1) = sub

\* the fields of instance i as the scripts of the page now hold them
CurFields(i) ==
  LET own == {s \in 1..Len(locals) : scripts[s].inst = i}
      has(f) == {s \in own : Declared(locals[s], f)}
      last(S) == CHOOSE s \in S : \A t \in S : t <= s
  IN  [f \in DOMAIN insts[i].fields |->
         IF has(f) = {} THEN insts[i].fields[f]
         ELSE Lookup(locals[last(has(f))], f)]
\* what the server would print in place of a token it inlined
Reval(tok) ==
  IF tok.k = "val" /\ tok.e # <<>>
  THEN LET expr == ExprAt(tok.e[1], tok.e[2], tok.e[3])
       IN  IF expr.kind \in {"field", "sum", "tern"}
           THEN Val(Eval(expr, CurFields(tok.i), Undefined), tok.e, tok.i)
           ELSE tok
  ELSE tok
ServerView(toks) == [k \in 1..Len(toks) |-> Reval(toks[k])]
AttrValue(doc, p, name) ==
  IF AttrNamed(doc, p, name) = <<>> THEN <<>> ELSE AttrNamed(doc, p, name)[1].val
\* what the element of binding b shows, and what the server would render
Shown(b) ==
  IF b.attribute = "" THEN textContent(Doc, ZidPos(Doc, b.id))
  ELSE AttrValue(Doc, ZidPos(Doc, b.id), b.attribute)
Rendered(b) ==
  IF b.attribute = "" THEN ServerView(textContent(Out, ZidPos(Out, b.id)))
  ELSE ServerView(AttrValue(Out, ZidPos(Out, b.id), b.attribute))

\* C1: in the browser, after the page has loaded and after any sequence of
\* handler events, every element that carries a binding shows, as its text
\* content or as the bound attribute, what the server would render for that
\* element from the current field values -- static text next to the
\* interpolation and other interpolations of the element included.
C1_DomInSync ==
  dom # <<>> =>
    \A s \in 1..Len(scripts) : \A k \in 1..Len(scripts[s].update) :
      LET b == scripts[s].update[k]
      IN  (b.id \in refs[s] /\ ZidPos(Doc, b.id) # 0 /\ ZidPos(Out, b.id) # 0)
            => Plain(Shown(b)) = Plain(Rendered(b))

\* the fields a render method reads and writes nowhere
FieldsRead(cls) ==
  {a.name : a \in SeqToSet(TemplateAccesses(cls, 1))} \cap DOMAIN Classes[cls].fields
FieldsWritten(cls) ==
  {a.name : a \in {x \in SeqToSet(TemplateAccesses(cls, 1)) : IsWrite(x)}}
\* a render method that writes no field and has no handler, no async slot
\* and no child component
AllExprs(cls) ==
  UNION {SeqToSet(Classes[cls].templates[t].exprs) :
           t \in 1..Len(Classes[cls].templates)}
Inert(cls) ==
  /\ FieldsWritten(cls) = {}
  /\ \A e \in AllExprs(cls) : e.kind \notin {"arrow", "call", "new", "news"}
\* the template's strings with the fields' values between them
RECURSIVE Inlined(_, _, _)
Inlined(cls, fields, i) ==
  LET t == Classes[cls].templates[1]
  IN  IF i > Len(t.exprs) THEN t.strings[i]
      ELSE t.strings[i]
             \o <<Val(FieldOf(fields, t.exprs[i].f), <<cls, 1, i>>, 1)>>
             \o Inlined(cls, fields, i + 1)
OnlyFieldSlots(cls) ==
  /\ Len(Classes[cls].templates) = 1
  /\ Classes[cls].templates[1].exprs # <<>>
  /\ \A e \in AllExprs(cls) : e.kind = "field"

\* C2, as stated: when the render method reads a field that it writes
\* nowhere, the output of the page carries no data-zid attribute and no
\* script block.
C2_AnyUnwrittenField ==
  output # <<>> =>
    ((FieldsRead(PageCls) \ FieldsWritten(PageCls)) # {}
       => Count(Out, "zid") = 0 /\ Count(Out, "scr") = 0)

\* C2, amended: when the render method writes no field and has no event
\* handler, no async slot and no child component, the output carries no
\* data-zid attribute and no script block, and a template whose
\* interpolations are all field reads comes out as its strings with the
\* fields' values between them, so that two renders differ in the inlined
\* values only.
C2_ReadOnlyInlined ==
  output # <<>> =>
    (Inert(PageCls) =>
       /\ Count(Out, "zid") = 0 /\ Count(Out, "scr") = 0
       /\ scripts = <<>> /\ log = <<>>
       /\ OnlyFieldSlots(PageCls) => Out = Inlined(PageCls, insts[1].fields, 1))
C2_Witness ==
  /\ output # <<>> /\ PageCls = "Label"
  /\ insts[1].fields.count = Num(MaxInit)
  /\ Out = <<Lt("span"), Gt, Val(Num(MaxInit), <<"Label", 1, 1>>, 1), Etag("span")>>

\* C3: within one render an element receives at most one identifier, and
\* the markup carries as many data-zid attributes as there are elements
\* targeted by a handler, a binding or an async binding.
C3_OneIdPerTargetedElement ==
  /\ \A j, k \in 1..Len(log) :
       (j # k /\ log[j].ord # -1 /\ log[j].inv = log[k].inv)
         => log[j].ord # log[k].ord
  /\ output # <<>> => Count(Out, "zid") = Len(log)

\* C4: the identifiers assigned during one top-level render are pairwise
\* distinct across the page and all its descendant components: every
\* factory draws from the one counter, whose draws only grow.
C4_IdsDistinct ==
  /\ \A f \in 1..Len(facs) : facs[f].ctr = 1
  /\ \A j, k \in 1..Len(log) : j < k => log[j].id < log[k].id
  /\ output # <<>> =>
       \A p, q \in 1..Len(Out) :
         (p # q /\ Out[p].k = "zid" /\ Out[q].k = "zid") => Out[p].n # Out[q].n
C4_Witness ==
  /\ output # <<>> /\ Len(facs) = 3
  /\ {log[k].fac : k \in 1..Len(log)} = {1, 2, 3}
  /\ Count(Out, "zid") = Len(log)

\* factory f was created, directly or through other components, by html call inv
RECURSIVE Desc(_, _)
Desc(f, inv) ==
  f # 0 /\ (facs[f].by.inv = inv \/ Desc(facs[f].by.fac, inv))
PassRank(pass) ==
  CASE pass = "asm" -> 0 [] pass = "A" -> 1 [] pass = "B" -> 2 [] pass = "T" -> 3

\* C5, as stated: identifiers are assigned parent before child -- an
\* element of a parent component gets a smaller number than any element of
\* a child component nested in it -- and none is assigned before Pass A.
C5_ParentBeforeChild ==
  /\ \A j, k \in 1..Len(log) :
       Desc(log[k].fac, log[j].inv) => log[j].id < log[k].id
  /\ \A k \in 1..Len(log) : log[k].pass # "asm"

\* C5, amended: identifiers are _0, _1, _2, ... in the order of their
\* assignment.  Within one html call the anchors of async slots are numbered
\* first, during assembly, then the elements Pass A reaches, then those of
\* Pass B, then the parents of bound text, each pass in document order; a
\* child component is rendered during its parent's assembly, so its elements
\* get smaller numbers than the elements the parent numbers in its passes.
C5_FirstUseOrder ==
  /\ \A k \in 1..Len(log) : log[k].id = k - 1
  /\ \A j, k \in 1..Len(log) :
       (j < k /\ log[j].inv = log[k].inv) =>
         /\ PassRank(log[j].pass) <= PassRank(log[k].pass)
         /\ (log[j].pass = log[k].pass /\ log[j].pass \in {"A", "B"})
              => log[j].ord < log[k].ord
  /\ \A j, k \in 1..Len(log) :
       (Desc(log[k].fac, log[j].inv) /\ log[j].pass # "asm")
         => log[k].id < log[j].id
C5_Witness ==
  /\ output # <<>> /\ PageCls = "Outer"
  /\ \E j, k \in 1..Len(log) :
       /\ Desc(log[k].fac, log[j].inv) /\ log[j].pass = "A"
       /\ log[k].id < log[j].id
  /\ \E k \in 1..Len(log) : log[k].pass = "asm"

\* C6: what a call of html returns ends with a script block exactly when a
\* Binding, a Handler or an AsyncBinding has been recorded.
C6_ScriptIffRecorded ==
  (stack # <<>> /\ Top.phase = "ret") =>
    ((Top.html # <<>> /\ Top.html[Len(Top.html)].k = "scr")
       <=> NeedsScript(TopFac.handlers, TopFac.bindings, TopFac.asyncBindings))

\* the fields an expression or a handler body names
NamesOf(cls, expr) == {a.name : a \in SeqToSet(Accesses(cls, expr))}
BodyNames(body) ==
  UNION {{a.name : a \in SeqToSet(StmtAccesses(body[k]))} : k \in 1..Len(body)}
DeclaredIn(sc) == {sc.decls[k].name : k \in 1..Len(sc.decls)}

\* C7: every field a handler body or a binding expression of a script
\* reads or writes is declared as a local of that script, a field that only
\* a handler reads included.
C7_LocalsDeclared ==
  \A s \in 1..Len(scripts) :
    LET sc == scripts[s]
    IN  /\ \A k \in 1..Len(sc.handlers) :
             BodyNames(sc.handlers[k].body) \subseteq DeclaredIn(sc)
        /\ \A k \in 1..Len(sc.update) :
             LET e == sc.update[k].expr
             IN  NamesOf(e.cls, ExprAt(e.cls, e.tpl, e.slot)) \subseteq DeclaredIn(sc)

\* C8: the output of a page render holds a single script block, at its
\* end, and no handler or binding is installed by two script blocks.
C8_SingleScript ==
  output # <<>> =>
    /\ Count(Out, "scr") <= 1
    /\ Count(Out, "scr") = 1 => Out[Len(Out)].k = "scr"
    /\ \A s, t \in {Out[p].n : p \in {q \in 1..Len(Out) : Out[q].k = "scr"}} :
         s # t =>
           /\ SeqToSet(scripts[s].handlers) \cap SeqToSet(scripts[t].handlers) = {}
           /\ SeqToSet(scripts[s].update) \cap SeqToSet(scripts[t].update) = {}

\* C9: an interpolation whose value is false, null or undefined and that
\* sits directly in an attribute's value slot leaves no such attribute in
\* the output, whatever the attribute's name and whether or not the
\* expression reads a written field.
C9_FalsyAttributeAbsent ==
  output # <<>> =>
    LET t == Classes[PageCls].templates[1]
    IN  \A i \in 1..Len(t.exprs) :
          (/\ t.exprs[i].kind \in {"lit", "field"}
           /\ isAttrPosition(t.strings[i])
           /\ IsFalsySentinel(Eval(t.exprs[i], insts[1].fields, Undefined)))
            => \A p \in SeqToSet(allElements(Out)) :
                 AttrNamed(Out, p, t.strings[i][Len(t.strings[i]) - 1].s) = <<>>

Content(doc, p) == SubSeq(doc, TagEnd(doc, p) + 1, ElemClose(doc, p) - 1)
ChainBinding(c) == scripts[chains[c].script].asyncs[chains[c].k]

\* C11: in the browser, when the chain of an async binding that has no
\* catch-callback is rejected -- its promise rejects or its then-callback
\* throws -- the content of the anchor is never changed: it stays what the
\* server rendered.
C11_RejectedStaysLoading ==
  \A c \in 1..Len(chains) :
    LET a == ChainBinding(c)
    IN  (/\ a.catchCb = "" /\ chains[c].primary = "rejected"
         /\ ZidPos(Doc, a.id) # 0)
          => Content(Doc, ZidPos(Doc, a.id)) = Content(Out, ZidPos(Out, a.id))
C11_Witness ==
  /\ dom # <<>> /\ PageCls = "Remote"
  /\ Len(chains) = 1 /\ chains[1].state = "rejected"
  /\ ChainBinding(1).catchCb = ""
  /\ Doc = Out /\ Content(Doc, ZidPos(Doc, ChainBinding(1).id)) = <<>>

\* C12: in the browser, for an async binding with a catch-callback: once
\* the promise has resolved and the then-callback has returned, the
\* content of the anchor is the then-callback's result, and stays it; once
\* the primary chain has been rejected and the catch-callback has returned,
\* the content of the anchor is the catch-callback's result.
C12_CatchBranch ==
  \A c \in 1..Len(chains) :
    LET a == ChainBinding(c)
        p == ZidPos(Doc, a.id)
    IN  (a.catchCb # "" /\ p # 0 /\ a.id \in refs[chains[c].script]) =>
          /\ chains[c].primary = "fulfilled" => Content(Doc, p) = <<Res(a.thenCb)>>
          /\ (chains[c].primary = "rejected" /\ chains[c].state = "fulfilled")
               => Content(Doc, p) = <<Res(a.catchCb)>>
          /\ chains[c].state = "rejected" => Content(Doc, p) = <<>>
C12_Witness ==
  /\ dom # <<>> /\ PageCls = "RemoteCatch"
  /\ Len(chains) = 1 /\ chains[1].primary = "rejected"
  /\ chains[1].state = "fulfilled"
  /\ Content(Doc, ZidPos(Doc, ChainBinding(1).id)) = <<Res("errCb")>>

\* the render method a factory was made for
RenderFnOf(f) == insts[facs[f].inst].cls
\* the calls of this request, one per factory made (src/main.ts:323), in
\* which analyzeRender parsed the render method fn
Parsings(fn) ==
  {f \in 1..Len(facs) :
     RenderFnOf(f) = fn /\ analyzeRenderParse(astCache, fn).parsed}

\* C13: the classifications of a render method are memoized by the
\* method's identity: once a method has been analysed it is in the cache,
\* and no later analysis of the same method, by a later createHtmlFactory
\* call, parses it again.
C13_Memoized ==
  \A f \in 1..Len(facs) :
    /\ RenderFnOf(f) \in astCache
    /\ Cardinality(Parsings(RenderFnOf(f))) <= 1

\* the interpolation slot (template, index) of a render method
Slot(cls, t, i) == [cls |-> cls, tpl |-> t, slot |-> i]
SlotsOf(cls, t) == [i \in 1..Len(Classes[cls].templates[t].exprs) |-> Slot(cls, t, i)]
\* the templates nested in the interpolations of template t, in order
NestedIn(cls, t) ==
  LET exprs == Classes[cls].templates[t].exprs
  IN  Concat([i \in 1..Len(exprs) |->
                IF exprs[i].tpl # 0 THEN <<exprs[i].tpl>> ELSE <<>>])
\* the interpolations of a render method by the position of their `${`:
\* those of a nested template lie inside the interpolation that holds it
RECURSIVE ByPosition(_, _)
ByPosition(cls, t) ==
  LET exprs == Classes[cls].templates[t].exprs
  IN  Concat([i \in 1..Len(exprs) |->
                <<Slot(cls, t, i)>>
                  \o (IF exprs[i].tpl # 0 THEN ByPosition(cls, exprs[i].tpl)
                      ELSE <<>>)])
\* the interpolations template by template, the templates by the position
\* where each begins
RECURSIVE ByTemplate(_, _)
ByTemplate(cls, t) ==
  LET nested == NestedIn(cls, t)
  IN  SlotsOf(cls, t)
        \o Concat([k \in 1..Len(nested) |-> ByTemplate(cls, nested[k])])
SourcesOf(analysis) == [k \in 1..Len(analysis) |-> analysis[k].source]

C15_BodyThenUpdateAll ==
  [][fired' = fired + 1 =>
       \E h \in SeqToSet(installed) :
         LET s == h.script
             r == ExecBody(locals[s], scripts[s].handlers[h.k].body)
             u == update(dom[1], s, r.env)
         IN  /\ r.ok
             /\ locals' = [locals EXCEPT ![s] = r.env]
             /\ u.ok
             /\ dom' = <<u.doc>>]_vars

\* the elements of a sequence are pairwise different
NoRepeat(seq) == \A j, k \in 1..Len(seq) : seq[j] = seq[k] => j = k
\* the field names in the signals of the bindings bs and the writes of the
\* handlers hs, and the identifiers bs, hs and the async bindings as use
NamesIn(bs, hs) ==
  UNION {SeqToSet(bs[k].signals) : k \in 1..Len(bs)}
    \cup UNION {SeqToSet(hs[k].writes) : k \in 1..Len(hs)}
IdsIn(bs, hs, as) ==
  {bs[k].id : k \in 1..Len(bs)} \cup {hs[k].id : k \in 1..Len(hs)}
    \cup {as[k].id : k \in 1..Len(as)}

\* C16: a script block that generateScript makes from an instance, bindings,
\* handlers and async bindings declares exactly one local variable for
\* each distinct field name in a binding's signals or a handler's writes,
\* none twice and none omitted, initialised to the value the field has on
\* the instance, and holds exactly one element reference for each distinct
\* identifier of a binding, a handler or an async binding.
C16_OneDeclarationOneReference ==
  [][Len(scripts') = Len(scripts) + 1 =>
       LET sc == scripts'[Len(scripts')]
           names == NamesIn(TopFac.bindings, TopFac.handlers)
           ids == IdsIn(TopFac.bindings, TopFac.handlers, TopFac.asyncBindings)
           declared == [k \in 1..Len(sc.decls) |-> sc.decls[k].name]
       IN  /\ NoRepeat(declared) /\ SeqToSet(declared) = names
           /\ \A k \in 1..Len(sc.decls) :
                sc.decls[k].name \in DOMAIN TopInst.fields
                  => sc.decls[k].value = TopInst.fields[sc.decls[k].name]
           /\ NoRepeat(sc.ids) /\ SeqToSet(sc.ids) = ids]_vars
C16_Witness ==
  /\ output # <<>> /\ PageCls = "Pair" /\ Len(scripts) = 1
  /\ [k \in 1..Len(scripts[1].decls) |-> scripts[1].decls[k].name] \in
       {<<"a", "b">>, <<"b", "a">>}
  /\ Len(AllSignalsRepeated(facs[1].bindings, facs[1].handlers)) > 2
  /\ Len(facs[1].bindings) + Len(facs[1].handlers) > Len(scripts[1].ids)

\* a value JSON.stringify has no text for
NoLiteral(value) == value.t \in {"fn", "undef"}

\* C17: a render whose script generator meets a signal whose value on the
\* instance has no literal representation fails, so no script block of a
\* response declares such a signal; and no declaration carries a value
\* other than the one the field has on the instance.
C17_UnrepresentableFails ==
  \A s \in 1..Len(scripts) : \A k \in 1..Len(scripts[s].decls) :
    LET d == scripts[s].decls[k]
        value == FieldOf(insts[scripts[s].inst].fields, d.name)
    IN  ~NoLiteral(value) /\ d.value = value

\* the template text before interpolation i of template t ends with an
\* attribute name of the form on<event> and its `=`
AtOnAttribute(cls, t, i) ==
  LET before == Classes[cls].templates[t].strings[i]
      n == Len(before)
  IN  /\ n >= 3 /\ before[n] = Eq /\ before[n - 2] = Ws
      /\ before[n - 1].k = "w" /\ before[n - 1].s \in OnWords
\* the fields a handler body increments, decrements or assigns
Assigned(body) == {body[j].f : j \in 1..Len(body)}

\* C18: in every analysis a factory holds, a slot whose expression is an
\* arrow function placed at an on<event>= attribute has isEvent = TRUE,
\* eventName equal to the attribute's name, and writes containing every
\* field the function body increments, decrements or assigns, by a plain
\* or a compound assignment.
C18_HandlerClassified ==
  \A f \in 1..Len(facs) : \A k \in 1..Len(facs[f].analysis) :
    LET a == facs[f].analysis[k]
        expr == ExprAt(a.source.cls, a.source.tpl, a.source.slot)
        before == Classes[a.source.cls].templates[a.source.tpl].strings[a.source.slot]
    IN  (expr.kind = "arrow"
           /\ AtOnAttribute(a.source.cls, a.source.tpl, a.source.slot)) =>
          /\ a.isEvent
          /\ a.eventName = before[Len(before) - 1].s
          /\ Assigned(expr.body) \subseteq SeqToSet(a.writes)
C18_Witness ==
  /\ facs # <<>>
  /\ \E k \in 1..Len(facs[1].analysis) :
       /\ facs[1].analysis[k].isEvent
       /\ facs[1].analysis[k].eventName = "onclick"
       /\ facs[1].analysis[k].writes = <<"count">>
       /\ ExprAt("Stepper", 1, k) = Arrow(<<AddF("count", "step")>>)
       /\ facs[1].analysis[k].source = Slot("Stepper", 1, k)
  /\ \E k \in 1..Len(facs[1].analysis) :
       facs[1].analysis[k].signals = <<"count", "step">>

\* the names that follow `this.` in the source of an expression, those in
\* a template nested in it included
RECURSIVE Members(_, _)
Members(cls, expr) ==
  LET own == CASE expr.kind \in {"field", "tern", "and", "map", "len"} -> {expr.f}
               [] expr.kind \in {"sum", "method"} -> {expr.f, expr.g}
               [] expr.kind = "call" ->
                    IF expr.f \in GlobalFns THEN {} ELSE {expr.f}
               [] expr.kind = "arrow" ->
                    UNION {{expr.body[j].f, expr.body[j].g} \ {""} :
                             j \in 1..Len(expr.body)}
               [] OTHER -> {}
      inner == IF expr.tpl = 0 THEN <<>> ELSE Classes[cls].templates[expr.tpl].exprs
  IN  own \cup UNION {Members(cls, inner[j]) : j \in 1..Len(inner)}
\* the instance fields of a class: its members that are no methods
InstanceFields(cls) ==
  {f \in DOMAIN Classes[cls].fields : Classes[cls].fields[f].t # "fn"}

\* C19 (as stated): the signals of a slot that is not async are exactly
\* the instance fields accessed through `this` in its expression, each by
\* its first segment.
C19_SignalsAreFields ==
  \A f \in 1..Len(facs) : \A k \in 1..Len(facs[f].analysis) :
    LET a == facs[f].analysis[k]
        expr == ExprAt(a.source.cls, a.source.tpl, a.source.slot)
    IN  ~a.isAsync =>
          SeqToSet(a.signals) = Members(a.source.cls, expr) \cap InstanceFields(a.source.cls)

\* C19 (amended): the signals of a slot that is not async are exactly the
\* names of the members accessed through `this` anywhere in its
\* expression -- fields and called methods alike -- each recorded by the
\* first segment after `this` only; an expression with several distinct
\* members records all of them.
C19_SignalsAreMembers ==
  \A f \in 1..Len(facs) : \A k \in 1..Len(facs[f].analysis) :
    LET a == facs[f].analysis[k]
        expr == ExprAt(a.source.cls, a.source.tpl, a.source.slot)
    IN  ~a.isAsync => SeqToSet(a.signals) = Members(a.source.cls, expr)
C19_Witness ==
  /\ facs # <<>> /\ RenderFnOf(1) = "Formatted"
  /\ facs[1].analysis[2].signals = <<"next", "count">>
  /\ facs[1].analysis[1].signals = <<"count">>
  /\ "next" \notin InstanceFields("Formatted")

\* the identifiers the bindings, handlers and async bindings of the script
\* blocks of the current request use
ScriptIds == UNION {SeqToSet(scripts[s].ids) : s \in 1..Len(scripts)}

C21_Aligned ==
  \A d \in 1..Len(stack) :
    stack[d].phase = "slot" =>
      AnalysisAt(facs[stack[d].fac].analysis, stack[d].i).source =
        Slot(insts[facs[stack[d].fac].inst].cls, stack[d].tpl, stack[d].i)

\* the fields the handlers of template t write: the arrow functions at its
\* on<event>= attributes
HandlerWrites(cls, t) ==
  LET exprs == Classes[cls].templates[t].exprs
  IN  UNION {Assigned(exprs[i].body) :
               i \in {j \in 1..Len(exprs) :
                        exprs[j].kind = "arrow" /\ AtOnAttribute(cls, t, j)}}
\* the interpolations of template t that read a field and hold no
\* function, template or component
Reads(cls, t) ==
  {i \in 1..Len(Classes[cls].templates[t].exprs) :
     Classes[cls].templates[t].exprs[i].kind \in
       {"field", "sum", "tern", "len", "method"}}

\* C22: within one template invocation the identifiers of the event pass
\* are assigned before those of the binding passes, and when the page's
\* render has returned, every interpolation of its template that reads a
\* field written by a handler of the template has a Binding, whether it
\* stands before or after that handler.
C22_EventsFirstThenBindings ==
  /\ \A j, k \in 1..Len(log) :
       (j < k /\ log[j].inv = log[k].inv /\ log[k].pass = "A")
         => log[j].pass \in {"asm", "A"}
  /\ output # <<>> =>
       \A i \in Reads(PageCls, 1) :
         Members(PageCls, ExprAt(PageCls, 1, i)) \cap HandlerWrites(PageCls, 1) # {}
           => \E b \in 1..Len(facs[1].bindings) :
                facs[1].bindings[b].source = Slot(PageCls, 1, i)

\* C23: in every analysis a factory holds, no classification is both an
\* event and async, and a classification that is async has no signals and
\* no writes: the fields of the factory's writtenSignals all come from
\* classifications that are not async.
C23_AsyncExclusive ==
  \A f \in 1..Len(facs) :
    /\ \A k \in 1..Len(facs[f].analysis) :
         LET a == facs[f].analysis[k]
         IN  /\ ~(a.isEvent /\ a.isAsync)
             /\ a.isAsync => (a.signals = <<>> /\ a.writes = <<>>)
    /\ WrittenSignals(facs[f].analysis) =
         UNION {SeqToSet(facs[f].analysis[k].writes) :
                  k \in {j \in 1..Len(facs[f].analysis) : ~facs[f].analysis[j].isAsync}}
    /\ \A d \in 1..Len(stack) :
         stack[d].fac = f =>
           stack[d].written \subseteq
             UNION {SeqToSet(facs[f].analysis[k].writes) :
                      k \in {j \in 1..Len(facs[f].analysis) :
                               ~facs[f].analysis[j].isAsync}}
C23_Witness ==
  /\ facs # <<>> /\ RenderFnOf(1) = "AsyncCatch"
  /\ facs[1].analysis[1].isAsync /\ ~facs[1].analysis[1].isEvent
  /\ facs[1].analysis[1].signals = <<>>
  /\ Members("AsyncCatch", ExprAt("AsyncCatch", 1, 1)) = {"getData"}

\* C24: the output of a render holds no placeholder token: every
\* placeholder written during assembly has been replaced by the value or
\* removed when the render returns, whatever position it stood in.
C24_NoPlaceholderLeft ==
  output # <<>> => \A p \in 1..Len(Out) : Out[p].k # "ph"

\* C25: when the page's render has returned, every identifier carried by a
\* recorded Binding, Handler or AsyncBinding is the data-zid attribute of
\* exactly one element of the output, so every element lookup of the
\* scripts finds its element; a reactive text at the top level of a
\* template, outside any element, included.
C25_EveryIdOnOneElement ==
  output # <<>> =>
    \A f \in 1..Len(facs) :
      \A id \in IdsIn(facs[f].bindings, facs[f].handlers, facs[f].asyncBindings) :
        Cardinality({p \in 1..Len(Out) : Out[p] = Zid(id)}) = 1

====
